---- MODULE Spec2Model ----
(***************************************************************************)
(* Bay Navigator safety layer: SafetyService (the engine) and              *)
(* SafetyProvider (the notifying facade) of                                *)
(* src/apps/lib/widgets/safety_widgets.dart.                               *)
(*                                                                         *)
(* Every facade method is a call frame that advances from one `await` of   *)
(* the Dart code to the next; the code between two awaits is one atomic    *)
(* step.  The preference store, the URL launcher, the connectivity plugin  *)
(* and the platform are the environment: a write to the store either takes *)
(* effect or fails (the awaiting code then sees an exception), and         *)
(* SharedPreferences.getInstance() may fail until it has succeeded once.   *)
(*                                                                         *)
(* Spec      one caller at a time (a call starts when no call is in        *)
(*           flight), every facade method.                                 *)
(* SpecHist  one caller at a time, the history and session methods only,   *)
(*           with a budget deep enough to fill a session list.             *)
(* SpecConc  calls may overlap (two frames), connectivity may change.      *)
(* SpecNet   initialize, refreshNetworkStatus and dispose, one caller at   *)
(*           a time, connectivity changing among all readings;             *)
(*           SpecNetFair adds the fairness of the event loop.              *)
(***************************************************************************)
EXTENDS Naturals, Sequences, FiniteSets

\* ------------------------------------------------------------------ bounds
\* Facade calls in one run of Spec.
MaxCalls == 3
\* Facade calls outside a running incognito session in one run of SpecHist.
MaxHistCalls == 2
\* Facade calls in one run of SpecConc.
MaxConcCalls == 2
\* Connectivity changes in one run of SpecConc.
MaxChanges == 1
\* Facade calls and connectivity changes in one run of SpecNet.
MaxNetCalls == 3
MaxNetChanges == 3

\* ------------------------------------------------------- program constants
\* "Keep only last 20": cap of a persisted history list.
PersistedCap == 20
\* Cap of an in-memory session history list.
SessionCap == 10

\* Call frames: SpecConc lets two calls overlap.
Slots == {1, 2}

\* An optional value is a sequence of length 0 (absent, Dart null) or 1.
None == <<>>
Some(v) == <<v>>
OrElse(o, d) == IF Len(o) = 1 THEN o[1] ELSE d

\* defaultDestinations[0].url
DefaultUrl == "https://www.google.com"
\* A second catalog destination, the empty string, and a string Uri.parse
\* rejects with a FormatException (an unterminated IPv6 host).
WeatherUrl == "https://www.weather.gov"
EmptyUrl == ""
MalformedUrl == "http://["
UrlInputs == {WeatherUrl, EmptyUrl, MalformedUrl}
UriParseThrows(url) == url = MalformedUrl

\* Platform.isAndroid, Platform.isIOS, or neither (a desktop build).
Platforms == {"android", "ios", "linux"}
IsMobile(p) == p = "android" \/ p = "ios"

\* disguisedIcons: the catalog ids, first entry first.
DisguisedIconIds == <<"calculator", "notes", "weather", "utilities", "files">>

Range(seq) == {seq[i] : i \in 1..Len(seq)}
NoDuplicates(seq) == \A i, j \in 1..Len(seq) : seq[i] = seq[j] => i = j
\* <<n, n-1, ..., 1>>: n distinct values, most recent first.
Descending(n) == [i \in 1..n |-> n + 1 - i]

VARIABLES
    prefs,                  \* the preference store, by key
    prefsLoaded,            \* SafetyService._prefs != null
    isIncognitoSession,     \* SafetyService._isIncognitoSession
    sessionRecentPrograms,  \* SafetyService._sessionRecentPrograms
    sessionSearchHistory,   \* SafetyService._sessionSearchHistory
    provider,               \* the fields of SafetyProvider
    platform,               \* dart:io Platform of the process
    connectivity,           \* the reading Connectivity().checkConnectivity() gives
    streams,                \* the listeners of networkPrivacyStream, by creation order
    frames,                 \* the calls in flight and their last results
    nCalls,                 \* calls started so far
    nChanges,               \* connectivity changes so far
    loadRuns,               \* times initialize() went past its guard
    sess,                   \* what the running incognito session added (history)
    storeFailed,            \* an access to the preference store has failed (history)
    detector,               \* the fields of _QuickExitDetectorState
    i18n,                   \* the web i18n module, localStorage and the browser
    wizard,                 \* the eligibility wizard of the web page and its modal
    pwa                     \* the install prompt the web page holds and its button

vars == <<prefs, prefsLoaded, isIncognitoSession, sessionRecentPrograms,
          sessionSearchHistory, provider, platform, connectivity, streams, frames,
          nCalls, nChanges, loadRuns, sess, storeFailed, detector, i18n, wizard,
          pwa>>

engineVars == <<isIncognitoSession, sessionRecentPrograms, sessionSearchHistory>>
netVars == <<platform, connectivity, streams, nChanges>>
\* The app: the engine, the facade and their environment.
appVars == <<prefs, prefsLoaded, engineVars, provider, netVars, frames, nCalls,
              loadRuns, sess, storeFailed>>
\* The web page is a program of its own, beside the app.
webVars == <<i18n, wizard, pwa>>
uiVars == <<detector, webVars>>

\* ---------------------------------------------------------------- frames
IdleFrame ==
    [op |-> "idle", pc |-> "idle", arg |-> None, err |-> FALSE, loc |-> None,
     out |-> "none", ret |-> None, fx |-> {}, hadHistory |-> FALSE,
     before |-> None]

Running(s) == frames[s].pc \notin {"idle", "done"}
NoCallInFlight == \A s \in Slots : ~Running(s)

\* A call enters slot s: the caller's frame up to the first await.  The
\* frame notes whether the store held history when the call was made; the
\* session and disguise methods also note in `before` what they found (the
\* running session, the cached disguise state).
Enter(s, op, arg, pc, fx) ==
    [frames EXCEPT ![s] =
        [IdleFrame EXCEPT !.op = op, !.arg = arg, !.pc = pc, !.fx = fx,
                          !.hadHistory = /\ prefs.recent_programs # <<>>
                                         /\ prefs.search_history # <<>>]]

\* The frame in slot s moves to the await named pc.
Goto(s, pc) == [frames EXCEPT ![s].pc = pc]

\* The call in slot s completes normally, with the effects fx added.
Return(s, ret, fx) ==
    [frames EXCEPT ![s].pc = "done", ![s].out = "returned", ![s].ret = ret,
                   ![s].err = FALSE, ![s].fx = @ \cup fx]

\* The call in slot s completes with an exception reaching its caller.
Throw(s) == [frames EXCEPT ![s].pc = "done", ![s].out = "threw", ![s].err = FALSE]

\* `await _preferences`: getInstance() may fail while _prefs is still null.
AwaitPreferences(ok) ==
    /\ ok \in BOOLEAN
    /\ prefsLoaded => ok
    /\ prefsLoaded' = (prefsLoaded \/ ok)

\* The run remembers that an access to the store has failed.
Failed(bad) == storeFailed' = (storeFailed \/ bad)

\* A write to the store (setBool, setString, setStringList, remove): it is
\* applied, or it fails and leaves the store as it was.
StoreWrite(ok, key, value) ==
    prefs' = IF ok THEN [prefs EXCEPT ![key] = value] ELSE prefs

\* ------------------------------------------------------------------ Init
FreshPrefs ==
    [quick_exit_enabled |-> None, quick_exit_url |-> None, incognito_mode |-> None,
     show_safety_tips |-> None, network_warnings |-> None,
     recent_programs |-> <<>>, search_history |-> <<>>,
     disguised_mode |-> None, disguised_icon |-> None]

\* The store as earlier runs of the app may have left it: a fresh install,
\* full history lists, and the incognito setting on (with the history it
\* purged, or with history written since by a session that was ended).
InitPrefs ==
    { FreshPrefs,
      [FreshPrefs EXCEPT !.recent_programs = Descending(PersistedCap),
                         !.search_history = Descending(PersistedCap)],
      [FreshPrefs EXCEPT !.incognito_mode = Some(TRUE)],
      [FreshPrefs EXCEPT !.incognito_mode = Some(TRUE),
                         !.recent_programs = Descending(PersistedCap),
                         !.search_history = Descending(PersistedCap)] }

InitProvider ==
    [initialized |-> FALSE, quickExitEnabled |-> FALSE, quickExitUrl |-> DefaultUrl,
     incognitoModeEnabled |-> FALSE, isIncognitoSession |-> FALSE,
     showSafetyTips |-> TRUE, networkWarningsEnabled |-> TRUE,
     networkStatus |-> None, networkSubscription |-> None,
     disguisedModeEnabled |-> FALSE, currentDisguisedIcon |-> None,
     disposed |-> FALSE]

NoSession ==
    [byStart |-> FALSE, programs |-> {}, queries |-> {},
     stored |-> [programs |-> <<>>, queries |-> <<>>]]

\* The record of a session as startIncognitoSession() begins it: nothing
\* added yet, beside the lists the store holds at that moment.
StartedSession ==
    [byStart |-> TRUE, programs |-> {}, queries |-> {},
     stored |-> [programs |-> prefs.recent_programs,
                 queries |-> prefs.search_history]]

\* The state after construction, the connectivity plugin giving one of
\* `readings`.
\* _QuickExitDetectorState as created: no tap and no shake counted, no
\* timer, and the child not yet wrapped in a GestureDetector.
\* tapResetTimer is the time in ms left on the pending timer, lastShakeTime
\* the time in ms since the last shake; run, sinceTap and last record the
\* taps as they were made: the place of the last tap in its triple, the
\* time since it, and the last event the detector handled.
NewDetector ==
    [tapCount |-> 0, tapResetTimer |-> None, shakeCount |-> 0,
     lastShakeTime |-> None, gesture |-> FALSE, run |-> 0, sinceTap |-> None,
     last |-> "none"]

\* The i18n module as loaded: en and es are bundled, nothing is stored.
\* A language tag is the sequence of its subtags (what split('-') gives).
NewI18n ==
    [stored |-> None, storage |-> TRUE, loaded |-> {<<"en">>, <<"es">>},
     language |-> Some(<<"en", "US">>), lang |-> <<"en">>, calls |-> <<>>]

\* The question ids of the five steps of WIZARD_STEPS; step i of the script
\* is WIZARD_STEPS[i + 1].
WIZARD_STEPS ==
    << <<"household-size", "household-income">>, <<"categories">>, <<"county">>,
       <<"current-programs">>, <<"categories-interest">> >>
QuestionIds == UNION {Range(WIZARD_STEPS[i]) : i \in 1..Len(WIZARD_STEPS)}

\* The wizard script as loaded and its modal as createWizardModal() builds
\* it: step 0, no answers, the modal hidden with an empty body, and no
\* onclick handler on a footer button.  form holds the value of each
\* control the body shows, answers the saved value of each question.
NewWizard ==
    [currentStep |-> 0, answers |-> [q \in QuestionIds |-> None],
     form |-> [q \in QuestionIds |-> None], hidden |-> TRUE, body |-> "empty",
     backVisible |-> TRUE, progressHidden |-> FALSE, onclick |-> FALSE,
     href |-> "eligibility", last |-> "load"]

\* The install prompt: the page holds none and its button is not shown.
NewPwa ==
    [deferredPrompt |-> None, shown |-> FALSE, prompting |-> FALSE, fired |-> 0,
     clicks |-> 0, installed |-> 0, outcome |-> None, last |-> "load"]

\* The app after construction, the connectivity reading being one of
\* `readings`.
InitApp(readings) ==
    /\ prefs \in InitPrefs
    /\ prefsLoaded = FALSE
    /\ isIncognitoSession = FALSE
    /\ sessionRecentPrograms = <<>>
    /\ sessionSearchHistory = <<>>
    /\ provider = InitProvider
    /\ platform \in Platforms
    /\ connectivity \in readings
    /\ streams = <<>>
    /\ frames = [s \in Slots |-> IdleFrame]
    /\ nCalls = 0
    /\ nChanges = 0
    /\ loadRuns = 0
    /\ sess = NoSession
    /\ storeFailed = FALSE

\* The app after construction beside a web page as loaded.
InitWith(readings) ==
    /\ InitApp(readings)
    /\ detector = NewDetector
    /\ i18n = NewI18n
    /\ wizard = NewWizard
    /\ pwa = NewPwa

\* The app installed and not in use.
InitAppUnused ==
    /\ InitApp({{"wifi"}})
    /\ platform = "android"
    /\ prefs = FreshPrefs
    /\ detector = NewDetector

Init == InitWith({{"wifi"}})

\* ------------------------------------------------------- history lists
\* List.remove(v): drops the first occurrence of v, if any.
RemoveFirst(list, v) ==
    IF v \notin Range(list) THEN list
    ELSE LET i == CHOOSE k \in 1..Len(list) :
                      list[k] = v /\ \A j \in 1..(k - 1) : list[j] # v
         IN SubSeq(list, 1, i - 1) \o SubSeq(list, i + 1, Len(list))

RemoveLast(list) == SubSeq(list, 1, Len(list) - 1)

\* As InsertSession, without the cap.
InsertSessionUncapped(list, v) ==
    IF v \in Range(list) THEN list ELSE <<v>> \o list

\* The incognito branch of addRecentProgram / addSearchQuery.
InsertSession(list, v) ==
    IF v \in Range(list) THEN list
    ELSE LET added == <<v>> \o list
         IN IF Len(added) > SessionCap THEN RemoveLast(added) ELSE added

\* The persisted branch of addRecentProgram / addSearchQuery.
InsertPersisted(list, v) ==
    LET added == <<v>> \o RemoveFirst(list, v)
    IN IF Len(added) > PersistedCap THEN RemoveLast(added) ELSE added

AddOps == {"addRecentProgram", "addSearchQuery"}
GetOps == {"getRecentPrograms", "getSearchHistory"}
IsProgramOp(op) == op \in {"addRecentProgram", "getRecentPrograms"}
HistoryKey(op) == IF IsProgramOp(op) THEN "recent_programs" ELSE "search_history"
SessionList(op) == IF IsProgramOp(op) THEN sessionRecentPrograms ELSE sessionSearchHistory

\* What getRecentPrograms() / getSearchHistory() return in the current
\* state when the store can be read.
GetRecentPrograms ==
    IF isIncognitoSession THEN sessionRecentPrograms ELSE prefs.recent_programs
GetSearchHistory ==
    IF isIncognitoSession THEN sessionSearchHistory ELSE prefs.search_history
GetHistory(op) == IF IsProgramOp(op) THEN GetRecentPrograms ELSE GetSearchHistory

\* Values a caller adds: ids and queries are opaque strings, numbered here.
\* A value new to both lists of its kind, or the newest or the oldest entry
\* of one of them.
Fresh(op) ==
    CHOOSE n \in 1..(PersistedCap + SessionCap + 1) :
        /\ n \notin Range(prefs[HistoryKey(op)]) \cup Range(SessionList(op))
        /\ \A m \in 1..(n - 1) : m \in Range(prefs[HistoryKey(op)]) \cup Range(SessionList(op))
Ends(list) == IF list = <<>> THEN {} ELSE {list[1], list[Len(list)]}
AddInputs(op) == {Fresh(op)} \cup Ends(prefs[HistoryKey(op)]) \cup Ends(SessionList(op))

\* ------------------------------------------ the four plain facade setters
SetterOps ==
    {"setQuickExitEnabled", "setQuickExitUrl", "setShowSafetyTips",
     "setNetworkWarningsEnabled"}
SetterKey(op) ==
    CASE op = "setQuickExitEnabled" -> "quick_exit_enabled"
      [] op = "setQuickExitUrl" -> "quick_exit_url"
      [] op = "setShowSafetyTips" -> "show_safety_tips"
      [] op = "setNetworkWarningsEnabled" -> "network_warnings"
SetterField(op) ==
    CASE op = "setQuickExitEnabled" -> "quickExitEnabled"
      [] op = "setQuickExitUrl" -> "quickExitUrl"
      [] op = "setShowSafetyTips" -> "showSafetyTips"
      [] op = "setNetworkWarningsEnabled" -> "networkWarningsEnabled"
SetterInputs(op) == IF op = "setQuickExitUrl" THEN UrlInputs ELSE BOOLEAN

\* As CachedBeforeDelegation, with the cache left for later.
CachedAfterDelegation(cache, field, v) == cache

\* The facade's cache after `_field = v`, the first line of a setter.
CachedBeforeDelegation(cache, field, v) == [cache EXCEPT ![field] = v]

\* SafetyProvider.setX(v): the cache is written, then the engine is awaited.
CallSetter(s, op, v) ==
    /\ provider' = CachedBeforeDelegation(provider, SetterField(op), v)
    /\ frames' = Enter(s, op, v, "set_prefs", {})
    /\ UNCHANGED <<uiVars,
                   storeFailed, prefs, prefsLoaded, engineVars, netVars, loadRuns, sess>>

\* SafetyService.setX: `await _preferences`, then the write is issued.
SetterPrefs(s) ==
    /\ frames[s].pc = "set_prefs"
    /\ \E ok, wrote \in BOOLEAN :
        /\ AwaitPreferences(ok)
        /\ Failed(~ok \/ ~wrote)
        /\ IF ok
           THEN /\ StoreWrite(wrote, SetterKey(frames[s].op), Some(frames[s].arg))
                /\ frames' = [frames EXCEPT ![s].pc = "set_write", ![s].err = ~wrote]
           ELSE /\ wrote
                /\ prefs' = prefs
                /\ frames' = Throw(s)
    /\ UNCHANGED <<uiVars, nCalls, engineVars, provider, netVars, loadRuns, sess>>

\* The awaited write completes: the facade notifies, or the failure of the
\* write propagates through the engine and the facade.
SetterWrite(s) ==
    /\ frames[s].pc = "set_write"
    /\ frames' = IF frames[s].err THEN Throw(s) ELSE Return(s, None, {"notified"})
    /\ UNCHANGED <<uiVars, storeFailed, nCalls, prefs, prefsLoaded, engineVars, provider,
                   netVars, loadRuns, sess>>

\* ------------------------------------------------------- incognito mode
\* SafetyProvider.setIncognitoModeEnabled: both cached flags are written
\* before the engine is awaited.
CallSetIncognitoModeEnabled(s, enabled) ==
    /\ provider' = [provider EXCEPT !.incognitoModeEnabled = enabled,
                                    !.isIncognitoSession = enabled]
    /\ frames' = Enter(s, "setIncognitoModeEnabled", enabled, "sim_prefs", {})
    /\ UNCHANGED <<uiVars,
                   storeFailed, prefs, prefsLoaded, engineVars, netVars, loadRuns, sess>>

\* SafetyService.setIncognitoModeEnabled up to `await prefs.setBool`.
SetIncognitoPrefs(s) ==
    /\ frames[s].pc = "sim_prefs"
    /\ \E ok, wrote \in BOOLEAN :
        /\ AwaitPreferences(ok)
        /\ Failed(~ok \/ ~wrote)
        /\ IF ok
           THEN /\ StoreWrite(wrote, "incognito_mode", Some(frames[s].arg))
                /\ frames' = [frames EXCEPT ![s].pc = "sim_write", ![s].err = ~wrote]
           ELSE /\ wrote
                /\ prefs' = prefs
                /\ frames' = Throw(s)
    /\ UNCHANGED <<uiVars, nCalls, engineVars, provider, netVars, loadRuns, sess>>

\* As PurgesOnSet, with the purge left to the next use.
NeverPurgesOnSet(enabled) == FALSE

\* Whether setIncognitoModeEnabled(enabled) goes on to clearAllHistory().
PurgesOnSet(enabled) == enabled

\* After the setBool: the session flag mirrors the setting, and enabling
\* calls clearAllHistory(), which awaits _preferences.
SetIncognitoWrite(s) ==
    /\ frames[s].pc = "sim_write"
    /\ IF frames[s].err
       THEN /\ frames' = Throw(s)
            /\ UNCHANGED <<isIncognitoSession, sess>>
       ELSE /\ isIncognitoSession' = frames[s].arg
            /\ sess' = IF frames[s].arg THEN sess ELSE NoSession
            /\ frames' = IF PurgesOnSet(frames[s].arg)
                         THEN Goto(s, "cah_prefs")
                         ELSE Return(s, None, {"notified"})
    /\ UNCHANGED <<uiVars, storeFailed, nCalls, prefs, prefsLoaded, sessionRecentPrograms,
                   sessionSearchHistory,
                   provider, netVars, loadRuns>>

\* What startIncognitoSession / endIncognitoSession find at the call: the
\* running session and the facade's cached flag.
SessionFound == [session |-> sess, cached |-> provider.isIncognitoSession]

\* As ClearedSessionList, with the entries kept.
KeptSessionList(list) == list

\* A session list after List.clear().
ClearedSessionList(list) == <<>>

\* SafetyProvider.startIncognitoSession: synchronous, engine first.
CallStartIncognitoSession(s) ==
    /\ isIncognitoSession' = TRUE
    /\ sessionRecentPrograms' = ClearedSessionList(sessionRecentPrograms)
    /\ sessionSearchHistory' = ClearedSessionList(sessionSearchHistory)
    /\ provider' = [provider EXCEPT !.isIncognitoSession = TRUE]
    /\ sess' = StartedSession
    /\ frames' = [frames EXCEPT ![s] =
                    [IdleFrame EXCEPT !.op = "startIncognitoSession", !.pc = "done",
                                      !.out = "returned", !.fx = {"notified"},
                                      !.before = Some(SessionFound)]]
    /\ UNCHANGED <<uiVars, storeFailed, prefs, prefsLoaded, netVars, loadRuns>>

\* As SessionFlagAfterEnd, with the flag left as it is.
SessionFlagKept(flag) == flag

\* _isIncognitoSession after endIncognitoSession().
SessionFlagAfterEnd(flag) == FALSE

\* SafetyProvider.endIncognitoSession: the engine's body has no await and
\* runs at the call; the facade resumes after its own await.
CallEndIncognitoSession(s) ==
    /\ isIncognitoSession' = SessionFlagAfterEnd(isIncognitoSession)
    /\ sessionRecentPrograms' = ClearedSessionList(sessionRecentPrograms)
    /\ sessionSearchHistory' = ClearedSessionList(sessionSearchHistory)
    /\ sess' = NoSession
    /\ frames' = [Enter(s, "endIncognitoSession", None, "end_await", {})
                    EXCEPT ![s].before = Some(SessionFound)]
    /\ UNCHANGED <<uiVars, storeFailed, prefs, prefsLoaded, provider, netVars, loadRuns>>

EndIncognitoSessionResume(s) ==
    /\ frames[s].pc = "end_await"
    /\ provider' = [provider EXCEPT !.isIncognitoSession = FALSE]
    /\ frames' = Return(s, None, {"notified"})
    /\ UNCHANGED <<uiVars, storeFailed, nCalls, prefs, prefsLoaded, engineVars, netVars,
                   loadRuns, sess>>

\* ------------------------------------------------------------- history
\* As UsesSessionLists, with the session flag ignored.
AlwaysUsesStore(flag) == FALSE

\* Whether an add or a read is served by the in-memory session lists.
UsesSessionLists(flag) == flag

\* addRecentProgram / addSearchQuery up to the first await: the incognito
\* branch completes at once, the persisted branch awaits _preferences.
CallAddHistory(s, op, v) ==
    /\ op \in AddOps
    /\ IF UsesSessionLists(isIncognitoSession)
       THEN /\ sessionRecentPrograms' =
                    IF IsProgramOp(op) THEN InsertSession(sessionRecentPrograms, v)
                    ELSE sessionRecentPrograms
            /\ sessionSearchHistory' =
                    IF IsProgramOp(op) THEN sessionSearchHistory
                    ELSE InsertSession(sessionSearchHistory, v)
            /\ sess' = IF IsProgramOp(op)
                       THEN [sess EXCEPT !.programs = @ \cup {v}]
                       ELSE [sess EXCEPT !.queries = @ \cup {v}]
            /\ frames' = [frames EXCEPT ![s] =
                            [IdleFrame EXCEPT !.op = op, !.arg = v, !.pc = "done",
                                              !.out = "returned", !.fx = {"session"}]]
       ELSE /\ frames' = Enter(s, op, v, "add_prefs", {})
            /\ UNCHANGED <<sessionRecentPrograms, sessionSearchHistory, sess>>
    /\ UNCHANGED <<uiVars, storeFailed, prefs, prefsLoaded, isIncognitoSession, provider,
                   netVars, loadRuns>>

\* The persisted branch: read the list, move the value to the front, cap,
\* and issue setStringList.
AddHistoryPrefs(s) ==
    /\ frames[s].pc = "add_prefs"
    /\ \E ok, wrote \in BOOLEAN :
        /\ AwaitPreferences(ok)
        /\ Failed(~ok \/ ~wrote)
        /\ IF ok
           THEN /\ StoreWrite(wrote, HistoryKey(frames[s].op),
                              InsertPersisted(prefs[HistoryKey(frames[s].op)], frames[s].arg))
                /\ frames' = [frames EXCEPT ![s].pc = "add_write", ![s].err = ~wrote]
           ELSE /\ wrote
                /\ prefs' = prefs
                /\ frames' = Throw(s)
    /\ UNCHANGED <<uiVars, nCalls, engineVars, provider, netVars, loadRuns, sess>>

AddHistoryWrite(s) ==
    /\ frames[s].pc = "add_write"
    /\ frames' = IF frames[s].err THEN Throw(s) ELSE Return(s, None, {"persisted"})
    /\ UNCHANGED <<uiVars, storeFailed, nCalls, prefs, prefsLoaded, engineVars, provider,
                   netVars, loadRuns, sess>>

\* getRecentPrograms / getSearchHistory: a copy of the session list at
\* once, or the stored list after `await _preferences`.
CallGetHistory(s, op) ==
    /\ op \in GetOps
    /\ frames' = IF UsesSessionLists(isIncognitoSession)
                 THEN [frames EXCEPT ![s] =
                         [IdleFrame EXCEPT !.op = op, !.pc = "done", !.out = "returned",
                                           !.ret = SessionList(op), !.fx = {"session"}]]
                 ELSE Enter(s, op, None, "get_prefs", {})
    /\ UNCHANGED <<uiVars, storeFailed, prefs, prefsLoaded, engineVars, provider, netVars,
                   loadRuns, sess>>

GetHistoryPrefs(s) ==
    /\ frames[s].pc = "get_prefs"
    /\ \E ok \in BOOLEAN :
        /\ AwaitPreferences(ok)
        /\ Failed(~ok)
        /\ frames' = IF ok THEN Return(s, prefs[HistoryKey(frames[s].op)], {"persisted"})
                     ELSE Throw(s)
    /\ UNCHANGED <<uiVars, nCalls, prefs, engineVars, provider, netVars, loadRuns, sess>>

\* ------------------------------------------------------ clearAllHistory
\* SafetyProvider.clearAllHistory awaits the engine's clearAllHistory.
CallClearAllHistory(s) ==
    /\ frames' = Enter(s, "clearAllHistory", None, "cah_prefs", {})
    /\ UNCHANGED <<uiVars, storeFailed, prefs, prefsLoaded, engineVars, provider, netVars,
                   loadRuns, sess>>

\* clearAllHistory (called by the facade, by setIncognitoModeEnabled(true)
\* or by clearSessionData): `await _preferences`, then remove(recent).
ClearAllHistoryPrefs(s) ==
    /\ frames[s].pc = "cah_prefs"
    /\ \E ok, wrote \in BOOLEAN :
        /\ AwaitPreferences(ok)
        /\ Failed(~ok \/ ~wrote)
        /\ IF ok
           THEN /\ StoreWrite(wrote, "recent_programs", <<>>)
                /\ frames' = [frames EXCEPT ![s].pc = "cah_rm1", ![s].err = ~wrote]
           ELSE /\ wrote
                /\ prefs' = prefs
                /\ frames' = Throw(s)
    /\ UNCHANGED <<uiVars, nCalls, engineVars, provider, netVars, loadRuns, sess>>

\* The first remove completed: remove(search) is issued.
ClearAllHistoryRemove1(s) ==
    /\ frames[s].pc = "cah_rm1"
    /\ IF frames[s].err
       THEN /\ frames' = Throw(s)
            /\ UNCHANGED <<prefs, storeFailed>>
       ELSE \E wrote \in BOOLEAN :
            /\ StoreWrite(wrote, "search_history", <<>>)
            /\ Failed(~wrote)
            /\ frames' = [frames EXCEPT ![s].pc = "cah_rm2", ![s].err = ~wrote]
    /\ UNCHANGED <<uiVars,
                   nCalls, prefsLoaded, engineVars, provider, netVars, loadRuns, sess>>

\* The second remove completed: both session lists are cleared and the
\* facade method (clearAllHistory or setIncognitoModeEnabled) notifies.
ClearAllHistoryRemove2(s) ==
    /\ frames[s].pc = "cah_rm2"
    /\ frames[s].op # "executeQuickExit"
    /\ IF frames[s].err
       THEN /\ frames' = Throw(s)
            /\ UNCHANGED <<sessionRecentPrograms, sessionSearchHistory>>
       ELSE /\ sessionRecentPrograms' = ClearedSessionList(sessionRecentPrograms)
            /\ sessionSearchHistory' = ClearedSessionList(sessionSearchHistory)
            /\ frames' = Return(s, None, {"notified"})
    /\ UNCHANGED <<uiVars, storeFailed, nCalls, prefs, prefsLoaded, isIncognitoSession,
                   provider, netVars, loadRuns, sess>>

\* ------------------------------------------------------------ quick exit
\* As PurgeCondition, with the running session ignored.
PurgeOnSettingOnly(session, setting) == setting

\* The condition under which clearSessionData() also purges the store.
PurgeCondition(session, setting) == session \/ setting

\* The end of executeQuickExit on a platform p: SystemNavigator.pop() on
\* Android and iOS only.
ExitApp(s, p) == Return(s, None, IF IsMobile(p) THEN {"pop"} ELSE {})

\* After clearSessionData(): Uri.parse(url), then canLaunchUrl is awaited.
OpenUrl(s, fr) ==
    IF UriParseThrows(fr[s].loc[1]) THEN [fr EXCEPT ![s].pc = "done", ![s].out = "threw",
                                                 ![s].err = FALSE]
    ELSE [fr EXCEPT ![s].pc = "qe_can", ![s].err = FALSE, ![s].fx = @ \cup {"canLaunch"}]

\* What getQuickExitUrl() returns when the store can be read.
GetQuickExitUrl == OrElse(prefs.quick_exit_url, DefaultUrl)

\* What executeQuickExit finds at the call: the session flag, the stored
\* incognito setting and the stored history lists.
QuickExitFound ==
    [session |-> isIncognitoSession,
     setting |-> OrElse(prefs.incognito_mode, FALSE),
     stored |-> [programs |-> prefs.recent_programs,
                 queries |-> prefs.search_history]]

ExecuteQuickExitBegins(s) ==
    /\ frames' = [Enter(s, "executeQuickExit", None, "qe_url", {})
                    EXCEPT ![s].before = Some(QuickExitFound)]
    /\ UNCHANGED <<webVars, storeFailed, prefs, prefsLoaded, engineVars, provider,
                   netVars, loadRuns, sess>>

\* A caller other than the gesture detector.
CallExecuteQuickExit(s) ==
    /\ ExecuteQuickExitBegins(s)
    /\ UNCHANGED detector

\* getQuickExitUrl() completes; clearSessionData() clears the session lists
\* and, on an incognito session, calls clearAllHistory(); otherwise it
\* awaits isIncognitoModeEnabled().
QuickExitUrl(s) ==
    /\ frames[s].pc = "qe_url"
    /\ \E ok \in BOOLEAN :
        /\ AwaitPreferences(ok)
        /\ Failed(~ok)
        /\ IF ok
           THEN /\ sessionRecentPrograms' = ClearedSessionList(sessionRecentPrograms)
                /\ sessionSearchHistory' = ClearedSessionList(sessionSearchHistory)
                /\ frames' = [frames EXCEPT
                                ![s].loc = Some(GetQuickExitUrl),
                                ![s].pc = IF PurgeCondition(isIncognitoSession, FALSE)
                                          THEN "cah_prefs" ELSE "qe_mode"]
           ELSE /\ frames' = Throw(s)
                /\ UNCHANGED <<sessionRecentPrograms, sessionSearchHistory>>
    /\ UNCHANGED <<uiVars,
                   nCalls, prefs, isIncognitoSession, provider, netVars, loadRuns, sess>>

\* isIncognitoModeEnabled() completes inside clearSessionData().
QuickExitMode(s) ==
    /\ frames[s].pc = "qe_mode"
    /\ \E ok \in BOOLEAN :
        /\ AwaitPreferences(ok)
        /\ Failed(~ok)
        /\ frames' = IF ~ok THEN Throw(s)
                     ELSE IF PurgeCondition(FALSE, OrElse(prefs.incognito_mode, FALSE))
                          THEN Goto(s, "cah_prefs")
                          ELSE OpenUrl(s, frames)
    /\ UNCHANGED <<uiVars, nCalls, prefs, engineVars, provider, netVars, loadRuns, sess>>

\* clearAllHistory() completes inside clearSessionData().
QuickExitPurged(s) ==
    /\ frames[s].pc = "cah_rm2"
    /\ frames[s].op = "executeQuickExit"
    /\ IF frames[s].err
       THEN /\ frames' = Throw(s)
            /\ UNCHANGED <<sessionRecentPrograms, sessionSearchHistory>>
       ELSE /\ sessionRecentPrograms' = ClearedSessionList(sessionRecentPrograms)
            /\ sessionSearchHistory' = ClearedSessionList(sessionSearchHistory)
            /\ frames' = OpenUrl(s, frames)
    /\ UNCHANGED <<uiVars, storeFailed, nCalls, prefs, prefsLoaded, isIncognitoSession,
                   provider, netVars, loadRuns, sess>>

\* canLaunchUrl(uri) completes: true (launchUrl is awaited), false, or an
\* exception of the plugin.
QuickExitCanLaunch(s) ==
    /\ frames[s].pc = "qe_can"
    /\ \E r \in {"true", "false", "error"} :
        frames' = CASE r = "true" -> [frames EXCEPT ![s].pc = "qe_launch",
                                                    ![s].fx = @ \cup {"launch"}]
                    [] r = "false" -> ExitApp(s, platform)
                    [] r = "error" -> Throw(s)
    /\ UNCHANGED <<uiVars, storeFailed, nCalls, prefs, prefsLoaded, engineVars, provider,
                   netVars, loadRuns, sess>>

\* launchUrl(uri) completes or fails; a launch that never completes leaves
\* the frame here.
QuickExitLaunch(s) ==
    /\ frames[s].pc = "qe_launch"
    /\ \E launched \in BOOLEAN :
        frames' = IF launched THEN ExitApp(s, platform) ELSE Throw(s)
    /\ UNCHANGED <<uiVars, storeFailed, nCalls, prefs, prefsLoaded, engineVars, provider,
                   netVars, loadRuns, sess>>

\* ------------------------------------------------------ network privacy
\* getNetworkPrivacyStatus(): the first matching row; a failed query gives
\* the same status as no row.
Unknown == [level |-> "unknown", connectionType |-> "Unknown", warning |-> FALSE]

\* As NetworkPrivacyStatus, the VPN test placed before the mobile test.
VpnBeforeMobileStatus(reading, ok) ==
    IF ~ok THEN Unknown
    ELSE IF "wifi" \in reading
         THEN [level |-> "caution", connectionType |-> "WiFi", warning |-> TRUE]
    ELSE IF "vpn" \in reading
         THEN [level |-> "good", connectionType |-> "VPN", warning |-> FALSE]
    ELSE IF "mobile" \in reading
         THEN [level |-> "moderate", connectionType |-> "Mobile Data", warning |-> FALSE]
    ELSE IF "none" \in reading
         THEN [level |-> "offline", connectionType |-> "Offline", warning |-> TRUE]
    ELSE Unknown

NetworkPrivacyStatus(reading, ok) ==
    IF ~ok THEN Unknown
    ELSE IF "wifi" \in reading
         THEN [level |-> "caution", connectionType |-> "WiFi", warning |-> TRUE]
    ELSE IF "mobile" \in reading
         THEN [level |-> "moderate", connectionType |-> "Mobile Data", warning |-> FALSE]
    ELSE IF "vpn" \in reading
         THEN [level |-> "good", connectionType |-> "VPN", warning |-> FALSE]
    ELSE IF "none" \in reading
         THEN [level |-> "offline", connectionType |-> "Offline", warning |-> TRUE]
    ELSE Unknown

\* Readings the connectivity plugin reports after a change.
Readings == {{"wifi"}, {"mobile", "vpn"}, {"none"}}

\* Every reading made of the four results the classification tests.
ConnectivityResults == {"wifi", "mobile", "vpn", "none"}
AllReadings == SUBSET ConnectivityResults

\* A listener of networkPrivacyStream: the changes its paused source
\* subscription buffers (by number, oldest first), the change whose
\* re-evaluation is awaited, what was emitted to the listener, whether the
\* subscription was cancelled, and the number of changes before it began.
NewStream ==
    [pending |-> <<>>, inflight |-> None, delivered |-> <<>>, cancelled |-> FALSE,
     since |-> nChanges]

CallRefreshNetworkStatus(s) ==
    /\ frames' = Enter(s, "refreshNetworkStatus", None, "rns_net", {})
    /\ UNCHANGED <<uiVars, storeFailed, prefs, prefsLoaded, engineVars, provider, netVars,
                   loadRuns, sess>>

\* getNetworkPrivacyStatus() completes: the frame keeps the reading the
\* query found and the status returned.
RefreshNetworkStatusResume(s) ==
    /\ frames[s].pc = "rns_net"
    /\ \E ok \in BOOLEAN :
        /\ provider' = [provider EXCEPT
                          !.networkStatus = Some(NetworkPrivacyStatus(connectivity, ok))]
        /\ frames' = [Return(s, None, {"notified"}) EXCEPT
                        ![s].loc = Some(NetworkPrivacyStatus(connectivity, ok)),
                        ![s].before = Some([reading |-> connectivity, ok |-> ok])]
    /\ UNCHANGED <<uiVars, storeFailed, nCalls, prefs, prefsLoaded, engineVars, netVars,
                   loadRuns, sess>>

\* As NextEvent, the newest buffered change first.
NewestEvent(pending) == Len(pending)

\* The position in the buffer of the event asyncMap takes next.
NextEvent(pending) == 1

\* The connectivity plugin reports a change to the reading r: every
\* listener of onConnectivityChanged that is not cancelled gets the event
\* (buffered while its asyncMap subscription is paused).
ConnectivityChangeTo(r, max) ==
    /\ nChanges < max
    /\ r # connectivity
    /\ connectivity' = r
    /\ streams' = [i \in 1..Len(streams) |->
                     IF streams[i].cancelled THEN streams[i]
                     ELSE [streams[i] EXCEPT !.pending = Append(@, nChanges + 1)]]
    /\ nChanges' = nChanges + 1
    /\ UNCHANGED <<uiVars, storeFailed, nCalls, prefs, prefsLoaded, engineVars, provider,
                   platform, frames, loadRuns, sess>>

ConnectivityChange == \E r \in Readings : ConnectivityChangeTo(r, MaxChanges)

\* asyncMap takes the next event of stream i: the source subscription is
\* paused and getNetworkPrivacyStatus() is awaited.
StreamEvaluate(i) ==
    /\ ~streams[i].cancelled
    /\ streams[i].pending # <<>>
    /\ streams[i].inflight = None
    /\ LET k == NextEvent(streams[i].pending)
       IN streams' = [streams EXCEPT
                        ![i].inflight = Some(streams[i].pending[k]),
                        ![i].pending = SubSeq(@, 1, k - 1) \o SubSeq(@, k + 1, Len(@))]
    /\ UNCHANGED <<uiVars, storeFailed, nCalls, prefs, prefsLoaded, engineVars, provider,
                   platform, connectivity, frames, nChanges, loadRuns, sess>>

\* The re-evaluation completes: the status is emitted and the facade's
\* listener stores it and notifies.  The emission is noted with the change
\* that caused it, the number of changes its reading reflects, and whether
\* the facade had been disposed of.
StreamEmit(i) ==
    /\ ~streams[i].cancelled
    /\ streams[i].inflight # None
    /\ \E ok \in BOOLEAN :
        provider' = [provider EXCEPT
                        !.networkStatus = Some(NetworkPrivacyStatus(connectivity, ok))]
    /\ streams' = [streams EXCEPT
                     ![i].inflight = None,
                     ![i].delivered = Append(@, [change |-> streams[i].inflight[1],
                                                 asOf |-> nChanges,
                                                 late |-> provider.disposed])]
    /\ UNCHANGED <<uiVars, storeFailed, nCalls, prefs, prefsLoaded, engineVars, platform,
                   connectivity, frames, nChanges, loadRuns, sess>>

\* SafetyProvider.dispose(): `_networkSubscription?.cancel()`.  A cancelled
\* asyncMap subscription drops what it buffered and emits nothing more.
CallDispose(s) ==
    /\ streams' = [i \in 1..Len(streams) |->
                     IF provider.networkSubscription = Some(i)
                     THEN [streams[i] EXCEPT !.cancelled = TRUE, !.pending = <<>>,
                                             !.inflight = None]
                     ELSE streams[i]]
    /\ provider' = [provider EXCEPT !.disposed = TRUE]
    /\ frames' = [frames EXCEPT ![s] =
                    [IdleFrame EXCEPT !.op = "dispose", !.pc = "done",
                                      !.out = "returned"]]
    /\ UNCHANGED <<uiVars,
                   storeFailed, prefs, prefsLoaded, engineVars, platform, connectivity,
                   nChanges, loadRuns, sess>>

\* ------------------------------------------------------------ initialize
\* initialize(): a no-op once _initialized is set; otherwise the load
\* sequence starts with `await _safetyService.isQuickExitEnabled()`.
CallInitialize(s) ==
    /\ IF provider.initialized
       THEN /\ frames' = [frames EXCEPT ![s] =
                            [IdleFrame EXCEPT !.op = "initialize", !.pc = "done",
                                              !.out = "returned", !.fx = {"noop"}]]
            /\ loadRuns' = loadRuns
       ELSE /\ frames' = Enter(s, "initialize", None, "init_qe", {"load"})
            /\ loadRuns' = loadRuns + 1
    /\ UNCHANGED <<uiVars,
                   storeFailed, prefs, prefsLoaded, engineVars, provider, netVars, sess>>

\* The plain reads of the load sequence, in the order of the code.
InitReadPcs == {"init_qe", "init_url", "init_incog", "init_tips", "init_nw", "init_dm"}
InitReadKey(pc) ==
    CASE pc = "init_qe" -> "quick_exit_enabled"
      [] pc = "init_url" -> "quick_exit_url"
      [] pc = "init_incog" -> "incognito_mode"
      [] pc = "init_tips" -> "show_safety_tips"
      [] pc = "init_nw" -> "network_warnings"
      [] pc = "init_dm" -> "disguised_mode"
InitReadField(pc) ==
    CASE pc = "init_qe" -> "quickExitEnabled"
      [] pc = "init_url" -> "quickExitUrl"
      [] pc = "init_incog" -> "incognitoModeEnabled"
      [] pc = "init_tips" -> "showSafetyTips"
      [] pc = "init_nw" -> "networkWarningsEnabled"
      [] pc = "init_dm" -> "disguisedModeEnabled"
InitReadDefault(pc) ==
    CASE pc = "init_qe" -> FALSE
      [] pc = "init_url" -> DefaultUrl
      [] pc = "init_incog" -> FALSE
      [] pc = "init_tips" -> TRUE
      [] pc = "init_nw" -> TRUE
      [] pc = "init_dm" -> FALSE
InitReadNext(pc) ==
    CASE pc = "init_qe" -> "init_url"
      [] pc = "init_url" -> "init_incog"
      [] pc = "init_incog" -> "init_tips"
      [] pc = "init_tips" -> "init_nw"
      [] pc = "init_nw" -> "init_net"
      [] pc = "init_dm" -> "init_icon"

\* One awaited engine read of initialize() completes.  A failure lands in
\* the catch block: _initialized is set and the listeners are notified.
InitializeRead(s) ==
    /\ frames[s].pc \in InitReadPcs
    /\ \E ok \in BOOLEAN :
        /\ AwaitPreferences(ok)
        /\ Failed(~ok)
        /\ IF ok
           THEN /\ provider' =
                     [provider EXCEPT
                        ![InitReadField(frames[s].pc)] =
                            OrElse(prefs[InitReadKey(frames[s].pc)],
                                   InitReadDefault(frames[s].pc)),
                        !.isIncognitoSession =
                            IF frames[s].pc = "init_incog" THEN isIncognitoSession ELSE @]
                /\ frames' = Goto(s, InitReadNext(frames[s].pc))
           ELSE /\ provider' = [provider EXCEPT !.initialized = TRUE]
                /\ frames' = Return(s, None, {"notified"})
    /\ UNCHANGED <<uiVars, nCalls, prefs, engineVars, netVars, loadRuns, sess>>

\* `_networkStatus = await getNetworkPrivacyStatus()` completes.
InitializeNetwork(s) ==
    /\ frames[s].pc = "init_net"
    /\ \E ok \in BOOLEAN :
        provider' = [provider EXCEPT
                        !.networkStatus = Some(NetworkPrivacyStatus(connectivity, ok))]
    /\ frames' = Goto(s, "init_dm")
    /\ UNCHANGED <<uiVars, storeFailed, nCalls, prefs, prefsLoaded, engineVars, netVars,
                   loadRuns, sess>>

\* getCurrentDisguisedIcon(): the stored id resolved against the catalog,
\* the first entry standing in for an unknown id.
CurrentDisguisedIcon(stored) ==
    IF stored = None THEN None
    ELSE IF stored[1] \in Range(DisguisedIconIds) THEN stored
    ELSE Some(DisguisedIconIds[1])

\* getCurrentDisguisedIcon() completes; the stream is subscribed (which may
\* throw into the catch block); a persisted incognito setting starts a
\* session; _initialized is set and the listeners are notified.
InitializeFinish(s) ==
    /\ frames[s].pc = "init_icon"
    /\ \E ok, subscribed \in BOOLEAN :
        /\ AwaitPreferences(ok)
        /\ Failed(~ok)
        /\ IF ok /\ subscribed
           THEN /\ streams' = Append(streams, NewStream)
                /\ provider' =
                     [provider EXCEPT
                        !.currentDisguisedIcon = CurrentDisguisedIcon(prefs.disguised_icon),
                        !.networkSubscription = Some(Len(streams) + 1),
                        !.isIncognitoSession = provider.incognitoModeEnabled \/ @,
                        !.initialized = TRUE]
                /\ IF provider.incognitoModeEnabled
                   THEN /\ isIncognitoSession' = TRUE
                        /\ sessionRecentPrograms' = ClearedSessionList(sessionRecentPrograms)
                        /\ sessionSearchHistory' = ClearedSessionList(sessionSearchHistory)
                        /\ sess' = StartedSession
                   ELSE UNCHANGED <<engineVars, sess>>
                /\ frames' = Return(s, None, {"subscribed", "notified"})
           ELSE /\ provider' =
                     [provider EXCEPT
                        !.currentDisguisedIcon =
                            IF ok THEN CurrentDisguisedIcon(prefs.disguised_icon) ELSE @,
                        !.initialized = TRUE]
                /\ frames' = Return(s, None, {"notified"})
                /\ UNCHANGED <<engineVars, sess, streams>>
    /\ UNCHANGED <<uiVars, nCalls, prefs, platform, connectivity, nChanges, loadRuns>>

\* -------------------------------------------------------- disguised icon
\* Icons the settings screen passes to applyDisguisedIcon.
IconInputs == {DisguisedIconIds[1], DisguisedIconIds[2]}

\* DisguiseResult of the engine: success, and requiresRestart as the
\* platform makes it.
DisguiseResult(success, restart) == [success |-> success, requiresRestart |-> restart]

\* The cached disguise state of the facade.
DisguiseCache == <<provider.disguisedModeEnabled, provider.currentDisguisedIcon>>

\* As UpdatesDisguiseCache, with the result ignored.
AlwaysUpdatesDisguiseCache(success) == TRUE

\* Whether the facade stores the new disguise state and notifies.
UpdatesDisguiseCache(success) == success

\* The engine returns its result to the facade method in slot s, which
\* updates its cache to (enabled, icon) and notifies on success only.
DisguiseReturn(s, result, enabled, icon) ==
    IF UpdatesDisguiseCache(result.success)
    THEN /\ provider' = [provider EXCEPT !.disguisedModeEnabled = enabled,
                                         !.currentDisguisedIcon = icon]
         /\ frames' = Return(s, result, {"notified"})
    ELSE /\ provider' = provider
         /\ frames' = Return(s, result, {})

\* As DisguiseWrites, applyDisguisedIcon setting the flag before the id.
FlagFirstWrites(op, iconId) ==
    IF op = "applyDisguisedIcon"
    THEN <<[key |-> "disguised_mode", value |-> Some(TRUE)],
           [key |-> "disguised_icon", value |-> Some(iconId)]>>
    ELSE <<[key |-> "disguised_mode", value |-> Some(FALSE)],
           [key |-> "disguised_icon", value |-> None]>>

\* The two writes of the engine's applyDisguisedIcon(iconId)
\* (setDisguisedIcon, then setDisguisedModeEnabled(true)) and of its
\* resetToDefaultIcon (setDisguisedModeEnabled(false), then remove), in
\* the order they are awaited.
DisguiseWrites(op, iconId) ==
    IF op = "applyDisguisedIcon"
    THEN <<[key |-> "disguised_icon", value |-> Some(iconId)],
           [key |-> "disguised_mode", value |-> Some(TRUE)]>>
    ELSE <<[key |-> "disguised_mode", value |-> Some(FALSE)],
           [key |-> "disguised_icon", value |-> None]>>

\* SafetyProvider.applyDisguisedIcon(icon) awaits the engine's
\* applyDisguisedIcon(icon.id), which awaits setDisguisedIcon.
CallApplyDisguisedIcon(s, iconId) ==
    /\ frames' = [Enter(s, "applyDisguisedIcon", iconId, "adi_prefs", {})
                    EXCEPT ![s].before = Some(DisguiseCache)]
    /\ UNCHANGED <<uiVars, storeFailed, prefs, prefsLoaded, engineVars, provider, netVars,
                   loadRuns, sess>>

\* setDisguisedIcon: `await _preferences`, then setString is issued; an
\* exception lands in the catch block of applyDisguisedIcon.
ApplyDisguisedIconPrefs(s) ==
    /\ frames[s].pc = "adi_prefs"
    /\ \E ok, wrote \in BOOLEAN :
        /\ AwaitPreferences(ok)
        /\ Failed(~ok \/ ~wrote)
        /\ IF ok
           THEN /\ StoreWrite(wrote, DisguiseWrites(frames[s].op, frames[s].arg)[1].key,
                              DisguiseWrites(frames[s].op, frames[s].arg)[1].value)
                /\ frames' = [frames EXCEPT ![s].pc = "adi_icon", ![s].err = ~wrote]
                /\ provider' = provider
           ELSE /\ wrote
                /\ prefs' = prefs
                /\ DisguiseReturn(s, DisguiseResult(FALSE, FALSE), TRUE,
                                  Some(frames[s].arg))
    /\ UNCHANGED <<uiVars, nCalls, engineVars, netVars, loadRuns, sess>>

\* The setString completed: setDisguisedModeEnabled(true) issues its setBool.
ApplyDisguisedIconWrite(s) ==
    /\ frames[s].pc = "adi_icon"
    /\ IF frames[s].err
       THEN /\ DisguiseReturn(s, DisguiseResult(FALSE, FALSE), TRUE, Some(frames[s].arg))
            /\ UNCHANGED <<prefs, storeFailed>>
       ELSE \E wrote \in BOOLEAN :
            /\ StoreWrite(wrote, DisguiseWrites(frames[s].op, frames[s].arg)[2].key,
                          DisguiseWrites(frames[s].op, frames[s].arg)[2].value)
            /\ Failed(~wrote)
            /\ frames' = [frames EXCEPT ![s].pc = "adi_mode", ![s].err = ~wrote]
            /\ provider' = provider
    /\ UNCHANGED <<uiVars, nCalls, prefsLoaded, engineVars, netVars, loadRuns, sess>>

\* The setBool completed: the result is made for the platform.
ApplyDisguisedIconMode(s) ==
    /\ frames[s].pc = "adi_mode"
    /\ DisguiseReturn(s,
            IF frames[s].err THEN DisguiseResult(FALSE, FALSE)
            ELSE DisguiseResult(TRUE, platform = "android"),
            TRUE, Some(frames[s].arg))
    /\ UNCHANGED <<uiVars, storeFailed, nCalls, prefs, prefsLoaded, engineVars, netVars,
                   loadRuns, sess>>

\* SafetyProvider.resetToDefaultIcon awaits the engine's resetToDefaultIcon,
\* which awaits setDisguisedModeEnabled(false).
CallResetToDefaultIcon(s) ==
    /\ frames' = [Enter(s, "resetToDefaultIcon", None, "rdi_prefs", {})
                    EXCEPT ![s].before = Some(DisguiseCache)]
    /\ UNCHANGED <<uiVars, storeFailed, prefs, prefsLoaded, engineVars, provider, netVars,
                   loadRuns, sess>>

\* setDisguisedModeEnabled(false): `await _preferences`, then setBool.
ResetToDefaultIconPrefs(s) ==
    /\ frames[s].pc = "rdi_prefs"
    /\ \E ok, wrote \in BOOLEAN :
        /\ AwaitPreferences(ok)
        /\ Failed(~ok \/ ~wrote)
        /\ IF ok
           THEN /\ StoreWrite(wrote, DisguiseWrites(frames[s].op, None)[1].key,
                              DisguiseWrites(frames[s].op, None)[1].value)
                /\ frames' = [frames EXCEPT ![s].pc = "rdi_mode", ![s].err = ~wrote]
                /\ provider' = provider
           ELSE /\ wrote
                /\ prefs' = prefs
                /\ DisguiseReturn(s, DisguiseResult(FALSE, FALSE), FALSE, None)
    /\ UNCHANGED <<uiVars, nCalls, engineVars, netVars, loadRuns, sess>>

\* The setBool completed: remove(disguised_icon) is issued.
ResetToDefaultIconWrite(s) ==
    /\ frames[s].pc = "rdi_mode"
    /\ IF frames[s].err
       THEN /\ DisguiseReturn(s, DisguiseResult(FALSE, FALSE), FALSE, None)
            /\ UNCHANGED <<prefs, storeFailed>>
       ELSE \E wrote \in BOOLEAN :
            /\ StoreWrite(wrote, DisguiseWrites(frames[s].op, None)[2].key,
                          DisguiseWrites(frames[s].op, None)[2].value)
            /\ Failed(~wrote)
            /\ frames' = [frames EXCEPT ![s].pc = "rdi_icon", ![s].err = ~wrote]
            /\ provider' = provider
    /\ UNCHANGED <<uiVars, nCalls, prefsLoaded, engineVars, netVars, loadRuns, sess>>

\* The remove completed.
ResetToDefaultIconRemove(s) ==
    /\ frames[s].pc = "rdi_icon"
    /\ DisguiseReturn(s,
            IF frames[s].err THEN DisguiseResult(FALSE, FALSE)
            ELSE DisguiseResult(TRUE, platform = "android"),
            FALSE, None)
    /\ UNCHANGED <<uiVars, storeFailed, nCalls, prefs, prefsLoaded, engineVars, netVars,
                   loadRuns, sess>>

\* ---------------------------------------------------------- the machines
\* Every step a frame in flight can take.
Resume(s) ==
    \/ SetterPrefs(s)
    \/ SetterWrite(s)
    \/ SetIncognitoPrefs(s)
    \/ SetIncognitoWrite(s)
    \/ EndIncognitoSessionResume(s)
    \/ AddHistoryPrefs(s)
    \/ AddHistoryWrite(s)
    \/ GetHistoryPrefs(s)
    \/ ClearAllHistoryPrefs(s)
    \/ ClearAllHistoryRemove1(s)
    \/ ClearAllHistoryRemove2(s)
    \/ QuickExitUrl(s)
    \/ QuickExitMode(s)
    \/ QuickExitPurged(s)
    \/ QuickExitCanLaunch(s)
    \/ QuickExitLaunch(s)
    \/ RefreshNetworkStatusResume(s)
    \/ InitializeRead(s)
    \/ InitializeNetwork(s)
    \/ InitializeFinish(s)
    \/ ApplyDisguisedIconPrefs(s)
    \/ ApplyDisguisedIconWrite(s)
    \/ ApplyDisguisedIconMode(s)
    \/ ResetToDefaultIconPrefs(s)
    \/ ResetToDefaultIconWrite(s)
    \/ ResetToDefaultIconRemove(s)

\* A call starts within the budget of the run, on a facade that has not
\* been disposed of.
Counted(max) == ~provider.disposed /\ nCalls < max /\ nCalls' = nCalls + 1

\* One caller at a time: a call starts when none is in flight.
Next ==
    \/ NoCallInFlight /\ Counted(MaxCalls) /\
            \E op \in SetterOps : \E v \in SetterInputs(op) : CallSetter(1, op, v)
    \/ NoCallInFlight /\ Counted(MaxCalls) /\
            \E enabled \in BOOLEAN : CallSetIncognitoModeEnabled(1, enabled)
    \/ NoCallInFlight /\ Counted(MaxCalls) /\ CallStartIncognitoSession(1)
    \/ NoCallInFlight /\ Counted(MaxCalls) /\ CallEndIncognitoSession(1)
    \/ NoCallInFlight /\ Counted(MaxCalls) /\
            \E op \in AddOps : \E v \in AddInputs(op) : CallAddHistory(1, op, v)
    \/ NoCallInFlight /\ Counted(MaxCalls) /\
            \E op \in GetOps : CallGetHistory(1, op)
    \/ NoCallInFlight /\ Counted(MaxCalls) /\ CallClearAllHistory(1)
    \/ NoCallInFlight /\ Counted(MaxCalls) /\ CallExecuteQuickExit(1)
    \/ NoCallInFlight /\ Counted(MaxCalls) /\ CallRefreshNetworkStatus(1)
    \/ NoCallInFlight /\ Counted(MaxCalls) /\ CallInitialize(1)
    \/ NoCallInFlight /\ Counted(MaxCalls) /\
            \E iconId \in IconInputs : CallApplyDisguisedIcon(1, iconId)
    \/ NoCallInFlight /\ Counted(MaxCalls) /\ CallResetToDefaultIcon(1)
    \/ NoCallInFlight /\ Counted(MaxCalls) /\ CallDispose(1)
    \/ Resume(1)

Spec == Init /\ [][Next]_vars

\* The history and session methods alone, one caller at a time.  An add or
\* a read made during an incognito session does not count against the
\* budget: the states such calls reach are bounded by the session cap.
HistInputs(op) == {Fresh(op)} \cup Ends(GetHistory(op))

HistCounted ==
    IF isIncognitoSession THEN UNCHANGED nCalls ELSE Counted(MaxHistCalls)

HistResume(s) ==
    \/ EndIncognitoSessionResume(s)
    \/ AddHistoryPrefs(s)
    \/ AddHistoryWrite(s)
    \/ GetHistoryPrefs(s)

NextHist ==
    \/ NoCallInFlight /\ Counted(MaxHistCalls) /\ CallStartIncognitoSession(1)
    \/ NoCallInFlight /\ Counted(MaxHistCalls) /\ CallEndIncognitoSession(1)
    \/ NoCallInFlight /\ HistCounted /\
            (\E op \in AddOps : \E v \in HistInputs(op) : CallAddHistory(1, op, v))
    \/ NoCallInFlight /\ HistCounted /\
            (\E op \in GetOps : CallGetHistory(1, op))
    \/ HistResume(1)

InitHist ==
    /\ Init
    /\ platform = "android"
    /\ prefs.incognito_mode = None

SpecHist == InitHist /\ [][NextHist]_vars

\* Calls overlap: a call starts in the lowest free frame while another is
\* still awaiting, and the connectivity plugin reports changes.
FreeSlot(s) == ~Running(s) /\ \A t \in Slots : t < s => Running(t)

NextConc ==
    \/ \E s \in Slots : FreeSlot(s) /\ Counted(MaxConcCalls) /\
            \E op \in SetterOps : \E v \in SetterInputs(op) : CallSetter(s, op, v)
    \/ \E s \in Slots : FreeSlot(s) /\ Counted(MaxConcCalls) /\
            \E enabled \in BOOLEAN : CallSetIncognitoModeEnabled(s, enabled)
    \/ \E s \in Slots : FreeSlot(s) /\ Counted(MaxConcCalls) /\
            CallStartIncognitoSession(s)
    \/ \E s \in Slots : FreeSlot(s) /\ Counted(MaxConcCalls) /\
            CallEndIncognitoSession(s)
    \/ \E s \in Slots : FreeSlot(s) /\ Counted(MaxConcCalls) /\
            \E op \in AddOps : \E v \in AddInputs(op) : CallAddHistory(s, op, v)
    \/ \E s \in Slots : FreeSlot(s) /\ Counted(MaxConcCalls) /\
            \E op \in GetOps : CallGetHistory(s, op)
    \/ \E s \in Slots : FreeSlot(s) /\ Counted(MaxConcCalls) /\ CallClearAllHistory(s)
    \/ \E s \in Slots : FreeSlot(s) /\ Counted(MaxConcCalls) /\ CallExecuteQuickExit(s)
    \/ \E s \in Slots : FreeSlot(s) /\ Counted(MaxConcCalls) /\
            CallRefreshNetworkStatus(s)
    \/ \E s \in Slots : FreeSlot(s) /\ Counted(MaxConcCalls) /\ CallInitialize(s)
    \/ \E s \in Slots : FreeSlot(s) /\ Counted(MaxConcCalls) /\
            \E iconId \in IconInputs : CallApplyDisguisedIcon(s, iconId)
    \/ \E s \in Slots : FreeSlot(s) /\ Counted(MaxConcCalls) /\
            CallResetToDefaultIcon(s)
    \/ \E s \in Slots : FreeSlot(s) /\ Counted(MaxConcCalls) /\ CallDispose(s)
    \/ \E s \in Slots : Resume(s)
    \/ ConnectivityChange
    \/ \E i \in 1..Len(streams) : StreamEvaluate(i)
    \/ \E i \in 1..Len(streams) : StreamEmit(i)

InitConc == Init /\ platform = "android"

SpecConc == InitConc /\ [][NextConc]_vars

\* The network side alone: initialize, refreshNetworkStatus and dispose, one
\* caller at a time, while the connectivity plugin reports changes among
\* all readings and the stream re-evaluates.
NetResume(s) ==
    \/ InitializeRead(s)
    \/ InitializeNetwork(s)
    \/ InitializeFinish(s)
    \/ RefreshNetworkStatusResume(s)

NextNet ==
    \/ NoCallInFlight /\ Counted(MaxNetCalls) /\ CallInitialize(1)
    \/ NoCallInFlight /\ Counted(MaxNetCalls) /\ CallRefreshNetworkStatus(1)
    \/ NoCallInFlight /\ Counted(MaxNetCalls) /\ CallDispose(1)
    \/ NetResume(1)
    \/ \E r \in AllReadings : ConnectivityChangeTo(r, MaxNetChanges)
    \/ \E i \in 1..Len(streams) : StreamEvaluate(i)
    \/ \E i \in 1..Len(streams) : StreamEmit(i)

InitNet ==
    /\ InitWith(AllReadings)
    /\ platform = "android"
    /\ prefs = FreshPrefs

SpecNet == InitNet /\ [][NextNet]_vars

\* The event loop runs every ready continuation: an asyncMap subscription
\* that holds an event takes it, and a connectivity query that was started
\* completes.
SpecNetFair ==
    /\ SpecNet
    /\ WF_vars(\E i \in 1..Len(streams) : StreamEvaluate(i))
    /\ WF_vars(\E i \in 1..Len(streams) : StreamEmit(i))

\* ================================================================ claims
IncognitoSetting == OrElse(prefs.incognito_mode, FALSE)
Done(s) == frames[s].pc = "done"
Returned(s) == Done(s) /\ frames[s].out = "returned"
Threw(s) == Done(s) /\ frames[s].out = "threw"
SessionListsEmpty == sessionRecentPrograms = <<>> /\ sessionSearchHistory = <<>>
StoredHistoryEmpty == prefs.recent_programs = <<>> /\ prefs.search_history = <<>>

\* The URL-open attempt of the executeQuickExit in slot s has begun
\* (canLaunchUrl was called); it may since have ended in any way.
UrlOpenBegun(s) ==
    frames[s].op = "executeQuickExit" /\ "canLaunch" \in frames[s].fx

\* C1: in every run of executeQuickExit, from the moment the URL-open
\* attempt begins until after the call has ended (the open succeeding,
\* reporting that the URL cannot be opened, or failing), both session lists
\* are empty, and the stored history is empty whenever the purge condition
\* (incognito session or incognito setting) holds.
C1_ClearedBeforeUrlOpen ==
    \A s \in Slots :
        UrlOpenBegun(s) =>
            /\ SessionListsEmpty
            /\ (isIncognitoSession \/ IncognitoSetting) => StoredHistoryEmpty

\* C1 witness: an executeQuickExit ended with launchUrl failing, in a
\* session that had added a program, the store holding history at the call.
C1_Witness ==
    \E s \in Slots :
        /\ UrlOpenBegun(s) /\ Threw(s) /\ "launch" \in frames[s].fx
        /\ frames[s].hadHistory
        /\ isIncognitoSession /\ sess.programs # {}

\* C2: on Android and iOS, once the URL-open attempt of executeQuickExit
\* has begun, the call does not end without SystemNavigator.pop() having
\* been attempted, whatever the outcome of the open.
C2_ExitAttemptedWhateverTheOpen ==
    \A s \in Slots :
        (UrlOpenBegun(s) /\ Done(s) /\ IsMobile(platform)) => "pop" \in frames[s].fx

\* C3: during a session begun by startIncognitoSession(), the history
\* getters return only values added during that session.
C3_SessionReadsOnlySessionAdds ==
    sess.byStart =>
        /\ Range(GetRecentPrograms) \subseteq sess.programs
        /\ Range(GetSearchHistory) \subseteq sess.queries
        /\ \A s \in Slots :
            (Returned(s) /\ frames[s].op \in GetOps) =>
                Range(frames[s].ret) \subseteq
                    (IF IsProgramOp(frames[s].op) THEN sess.programs ELSE sess.queries)

\* C3: a step of an addRecentProgram / addSearchQuery call during such a
\* session leaves the store as it was.
C3_SessionAddKeepsStore ==
    \A s \in Slots :
        (sess.byStart /\ frames'[s] # frames[s] /\ frames'[s].op \in AddOps) =>
            prefs' = prefs

\* C3: after startIncognitoSession(), adds made while the session lasts do
\* not alter the persisted lists, and the getters return only entries added
\* during the session.
C3_IncognitoIsolation ==
    []C3_SessionReadsOnlySessionAdds /\ [][C3_SessionAddKeepsStore]_vars

\* C3 witness: a getter returned two session entries while the store held
\* its full lists.
C3_Witness ==
    \E s \in Slots :
        /\ sess.byStart
        /\ Returned(s) /\ frames[s].op = "getRecentPrograms"
        /\ Len(frames[s].ret) >= 2
        /\ prefs.recent_programs = Descending(PersistedCap)

\* C4: when setIncognitoModeEnabled(true) has returned, both persisted
\* history lists are empty.
C4_EnablingPurgesStore ==
    \A s \in Slots :
        (Returned(s) /\ frames[s].op = "setIncognitoModeEnabled" /\ frames[s].arg) =>
            StoredHistoryEmpty

\* C4 witness: setIncognitoModeEnabled(true) returned, called on a store
\* that held history.
C4_Witness ==
    \E s \in Slots :
        /\ Returned(s) /\ frames[s].op = "setIncognitoModeEnabled" /\ frames[s].arg
        /\ frames[s].hadHistory

\* C5: after a completed setIncognitoModeEnabled, startIncognitoSession,
\* endIncognitoSession, executeQuickExit or history add (no access to the
\* store having failed), a persisted incognito setting of true, known to
\* the facade, means the engine is in an incognito session.
C5Ops ==
    {"setIncognitoModeEnabled", "startIncognitoSession", "endIncognitoSession",
     "executeQuickExit", "addRecentProgram", "addSearchQuery"}
C5_SettingForcesSession ==
    \A s \in Slots :
        (Returned(s) /\ frames[s].op \in C5Ops /\ NoCallInFlight
            /\ IncognitoSetting /\ provider.incognitoModeEnabled /\ ~storeFailed) =>
            isIncognitoSession

\* C6: after addRecentProgram(id) / addSearchQuery(q) has returned, the
\* added value is the first element of what the matching getter returns.
C6_AddedValueIsFirst ==
    \A s \in Slots :
        (Returned(s) /\ frames[s].op \in AddOps /\ NoCallInFlight) =>
            /\ GetHistory(frames[s].op) # <<>>
            /\ GetHistory(frames[s].op)[1] = frames[s].arg

\* C7: no history list holds a value twice, a persisted list holds at most
\* 20 values and a session list at most 10.
C7_UniqueAndCapped ==
    /\ NoDuplicates(prefs.recent_programs) /\ Len(prefs.recent_programs) <= PersistedCap
    /\ NoDuplicates(prefs.search_history) /\ Len(prefs.search_history) <= PersistedCap
    /\ NoDuplicates(sessionRecentPrograms) /\ Len(sessionRecentPrograms) <= SessionCap
    /\ NoDuplicates(sessionSearchHistory) /\ Len(sessionSearchHistory) <= SessionCap

\* A list at its cap that takes a value it did not hold drops its last
\* (oldest) entry and keeps the others in order.
DropsOldest(old, new, cap) ==
    (new # old /\ Len(old) = cap /\ new # <<>> /\ new[1] \notin Range(old)) =>
        new = <<new[1]>> \o SubSeq(old, 1, cap - 1)

C7_DropsOldest ==
    /\ DropsOldest(prefs.recent_programs, prefs'.recent_programs, PersistedCap)
    /\ DropsOldest(prefs.search_history, prefs'.search_history, PersistedCap)
    /\ DropsOldest(sessionRecentPrograms, sessionRecentPrograms', SessionCap)
    /\ DropsOldest(sessionSearchHistory, sessionSearchHistory', SessionCap)

\* C7: in every state reached by adds (repeated values, either mode) each
\* history list is free of duplicates and within its cap (20 persisted, 10
\* session), and an add that would exceed the cap drops the oldest entry.
C7_DedupedAndCapped ==
    []C7_UniqueAndCapped /\ [][C7_DropsOldest]_vars

\* C7 witness: a session list at its cap after more than 10 distinct
\* values were added to it, beside a persisted list at its cap.
C7_Witness ==
    /\ Len(sessionRecentPrograms) = SessionCap
    /\ Cardinality(sess.programs) > SessionCap
    /\ Len(prefs.recent_programs) = PersistedCap

\* C8: no engine-backed read or write surfaces a failure of the preference
\* store to its caller.
C8Ops ==
    SetterOps \cup AddOps \cup GetOps \cup {"setIncognitoModeEnabled", "clearAllHistory"}
C8_NoStoreFailureSurfaces ==
    \A s \in Slots : (Done(s) /\ frames[s].op \in C8Ops) => frames[s].out = "returned"

\* C9: after any sequence of setQuickExitUrl calls, getQuickExitUrl()
\* returns a non-empty string, the first catalog URL when none was stored.
C9_QuickExitUrlNonEmpty ==
    NoCallInFlight =>
        /\ GetQuickExitUrl # EmptyUrl
        /\ prefs.quick_exit_url = None => GetQuickExitUrl = DefaultUrl

\* C10: however two initialize() calls are timed, the load sequence runs
\* once and one network-stream subscription is created.
C10_InitializeOnce == loadRuns <= 1 /\ Len(streams) <= 1

\* C11: when the store holds the incognito setting as true while
\* initialize() runs its load sequence, then once that call has completed
\* the engine is in an incognito session and the facade's cached
\* isIncognitoSession is true, whatever failed during the call.
C11_PersistedSettingStartsSession ==
    \A s \in Slots :
        (Returned(s) /\ frames[s].op = "initialize" /\ "load" \in frames[s].fx
            /\ NoCallInFlight /\ IncognitoSetting) =>
            isIncognitoSession /\ provider.isIncognitoSession

\* C12: a facade mutating method does not end without having notified its
\* subscribers, also when the engine write under it failed.
C12Ops ==
    SetterOps \cup {"setIncognitoModeEnabled", "clearAllHistory", "refreshNetworkStatus"}
C12_MutationAlwaysNotifies ==
    \A s \in Slots :
        (Done(s) /\ frames[s].op \in C12Ops) => "notified" \in frames[s].fx

\* The facade's cache already holds what the call in slot s is to establish.
CacheShowsIntent(s) ==
    LET op == frames[s].op
        arg == frames[s].arg
    IN CASE op \in SetterOps -> provider[SetterField(op)] = arg
         [] op = "setIncognitoModeEnabled" ->
                provider.incognitoModeEnabled = arg /\ provider.isIncognitoSession = arg
         [] op = "endIncognitoSession" -> ~provider.isIncognitoSession
         [] op = "applyDisguisedIcon" -> DisguiseCache = <<TRUE, Some(arg)>>
         [] op = "resetToDefaultIcon" -> DisguiseCache = <<FALSE, None>>

\* C13 as stated: while a facade mutating method is delegated to the engine
\* (its call awaits the engine), the facade's cache already holds the
\* intended value and the subscribers have not yet been notified.
C13Ops ==
    SetterOps \cup {"setIncognitoModeEnabled", "endIncognitoSession",
                    "applyDisguisedIcon", "resetToDefaultIcon"}
C13_CacheUpdatedBeforeDelegation ==
    \A s \in Slots :
        (Running(s) /\ frames[s].op \in C13Ops) =>
            CacheShowsIntent(s) /\ "notified" \notin frames[s].fx

\* The cache is as the call in slot s found it.
CacheAsFound(s) ==
    CASE frames[s].op = "endIncognitoSession" ->
            provider.isIncognitoSession = frames[s].before[1].cached
      [] frames[s].op \in {"applyDisguisedIcon", "resetToDefaultIcon"} ->
            Some(DisguiseCache) = frames[s].before

\* C13 amended: the four setters and setIncognitoModeEnabled write the
\* cache before they delegate; endIncognitoSession, applyDisguisedIcon and
\* resetToDefaultIcon delegate first and leave the cache as it was while
\* the engine is awaited.  No method notifies before the engine is done;
\* each method that returns has notified and shows its intent in the cache,
\* except a disguise method whose result is a failure.
C13_CacheOrderPerMethod ==
    \A s \in Slots :
        /\ (Running(s) /\ frames[s].op \in C13Ops) =>
                /\ "notified" \notin frames[s].fx
                /\ IF frames[s].op \in SetterOps \cup {"setIncognitoModeEnabled"}
                   THEN CacheShowsIntent(s)
                   ELSE CacheAsFound(s)
        /\ (Returned(s) /\ frames[s].op \in C13Ops /\ NoCallInFlight) =>
                IF frames[s].op \in {"applyDisguisedIcon", "resetToDefaultIcon"}
                      /\ ~frames[s].ret.success
                THEN CacheAsFound(s) /\ "notified" \notin frames[s].fx
                ELSE CacheShowsIntent(s) /\ "notified" \in frames[s].fx
        /\ (Returned(s) /\ frames[s].op = "startIncognitoSession") =>
                provider.isIncognitoSession /\ "notified" \in frames[s].fx

\* C13 witness: endIncognitoSession is awaited, the engine has left the
\* session and the facade's cache still shows it.
C13_Witness ==
    \E s \in Slots :
        /\ Running(s) /\ frames[s].op = "endIncognitoSession"
        /\ ~isIncognitoSession
        /\ provider.isIncognitoSession

\* C20: applyDisguisedIcon never throws.  A success result means both
\* values are in the store, the facade's cache holds the new state and the
\* subscribers were notified; a failure result means an access to the
\* store failed, the cache is as it was before the call and nobody was
\* notified.
C20_ApplyNeverThrows ==
    \A s \in Slots :
        (Done(s) /\ frames[s].op = "applyDisguisedIcon" /\ NoCallInFlight) =>
            /\ frames[s].out = "returned"
            /\ frames[s].ret.success =>
                    /\ prefs.disguised_icon = Some(frames[s].arg)
                    /\ prefs.disguised_mode = Some(TRUE)
                    /\ DisguiseCache = <<TRUE, Some(frames[s].arg)>>
                    /\ "notified" \in frames[s].fx
            /\ ~frames[s].ret.success =>
                    /\ storeFailed
                    /\ Some(DisguiseCache) = frames[s].before
                    /\ "notified" \notin frames[s].fx

\* C20 witness: an applyDisguisedIcon whose second write failed returned
\* failure to a facade that already showed another icon.
C20_Witness ==
    \E s \in Slots :
        /\ Returned(s) /\ frames[s].op = "applyDisguisedIcon"
        /\ ~frames[s].ret.success
        /\ prefs.disguised_icon = Some(frames[s].arg)
        /\ provider.disguisedModeEnabled
        /\ provider.currentDisguisedIcon # Some(frames[s].arg)

\* C15: when executeQuickExit has ended, both session lists are empty; the
\* stored history lists are empty if the call found an incognito session
\* or the incognito setting on, and are as the call found them otherwise.
C15_QuickExitFrame ==
    \A s \in Slots :
        (Done(s) /\ frames[s].op = "executeQuickExit" /\ NoCallInFlight) =>
            LET found == frames[s].before[1]
            IN /\ SessionListsEmpty
               /\ IF found.session \/ found.setting
                  THEN StoredHistoryEmpty
                  ELSE /\ prefs.recent_programs = found.stored.programs
                       /\ prefs.search_history = found.stored.queries

\* The session that the startIncognitoSession / endIncognitoSession call of
\* slot s found running.
SessionEnded(s) == frames[s].before[1].session

\* C16: while a session begun by startIncognitoSession() lasts, the store
\* holds the history lists P it held at the start; once
\* endIncognitoSession() has returned, the getters return exactly P, and
\* nothing that was added only during the session.
C16_NeverMerged ==
    /\ sess.byStart =>
            /\ prefs.recent_programs = sess.stored.programs
            /\ prefs.search_history = sess.stored.queries
    /\ \A s \in Slots :
            (Returned(s) /\ frames[s].op = "endIncognitoSession"
                /\ SessionEnded(s).byStart /\ NoCallInFlight) =>
                /\ GetRecentPrograms = SessionEnded(s).stored.programs
                /\ GetSearchHistory = SessionEnded(s).stored.queries
                /\ Range(GetRecentPrograms) \cap
                        (SessionEnded(s).programs
                            \ Range(SessionEnded(s).stored.programs)) = {}
                /\ Range(GetSearchHistory) \cap
                        (SessionEnded(s).queries
                            \ Range(SessionEnded(s).stored.queries)) = {}

\* C16 witness: a session that added a program the store did not hold was
\* ended, the store holding a full list throughout.
C16_Witness ==
    \E s \in Slots :
        /\ Returned(s) /\ frames[s].op = "endIncognitoSession"
        /\ SessionEnded(s).byStart
        /\ SessionEnded(s).programs \ Range(SessionEnded(s).stored.programs) # {}
        /\ Len(SessionEnded(s).stored.programs) = PersistedCap

\* C17: once startIncognitoSession() has returned the engine is in a
\* session, once endIncognitoSession() has run it is not, and both leave
\* the two session lists empty, whatever session was running.
C17_SessionBoundaries ==
    \A s \in Slots :
        /\ (Returned(s) /\ frames[s].op = "startIncognitoSession") =>
                isIncognitoSession /\ SessionListsEmpty
        /\ (frames[s].op = "endIncognitoSession" /\ NoCallInFlight) =>
                ~isIncognitoSession /\ SessionListsEmpty

\* C17 witness: startIncognitoSession() returned after being called in a
\* session that had added a program and a query.
C17_Witness ==
    \E s \in Slots :
        /\ Returned(s) /\ frames[s].op = "startIncognitoSession"
        /\ SessionEnded(s).byStart
        /\ SessionEnded(s).programs # {}
        /\ SessionEnded(s).queries # {}

\* C14: once the facade is disposed of and no call is in flight, every
\* subscription to the network stream is cancelled, and no status was
\* emitted to the facade's listener after the disposal.
C14_NoSubscriptionAfterDispose ==
    provider.disposed =>
        \A i \in 1..Len(streams) :
            /\ NoCallInFlight => streams[i].cancelled
            /\ \A k \in 1..Len(streams[i].delivered) : ~streams[i].delivered[k].late

\* The row of the classification table for a reading and a query outcome:
\* the level by the first of wifi, mobile, vpn, none the reading holds.
TableLevel(reading, ok) ==
    CASE ~ok -> "unknown"
      [] ok /\ "wifi" \in reading -> "caution"
      [] ok /\ "mobile" \in reading /\ "wifi" \notin reading -> "moderate"
      [] ok /\ "vpn" \in reading /\ reading \cap {"wifi", "mobile"} = {} -> "good"
      [] ok /\ "none" \in reading /\ reading \cap {"wifi", "mobile", "vpn"} = {} ->
            "offline"
      [] ok /\ reading \cap ConnectivityResults = {} -> "unknown"
TableConnectionType(level) ==
    CASE level = "caution" -> "WiFi"
      [] level = "moderate" -> "Mobile Data"
      [] level = "good" -> "VPN"
      [] level = "offline" -> "Offline"
      [] level = "unknown" -> "Unknown"

\* C18: the status a refreshNetworkStatus() obtained from
\* getNetworkPrivacyStatus() is the table's row for the reading the query
\* found (unknown for an empty reading or a failed query), with a warning
\* exactly on the WiFi and Offline rows.
C18_ClassificationTable ==
    \A s \in Slots :
        (Returned(s) /\ frames[s].op = "refreshNetworkStatus") =>
            LET found == frames[s].before[1]
                status == frames[s].loc[1]
            IN /\ status.level = TableLevel(found.reading, found.ok)
               /\ status.connectionType = TableConnectionType(status.level)
               /\ status.warning <=> status.level \in {"caution", "offline"}

\* C18 witness: a reading holding mobile and vpn without wifi was
\* classified.
C18_Witness ==
    \E s \in Slots :
        /\ Returned(s) /\ frames[s].op = "refreshNetworkStatus"
        /\ frames[s].before[1].ok
        /\ {"mobile", "vpn"} \subseteq frames[s].before[1].reading
        /\ "wifi" \notin frames[s].before[1].reading

\* The changes a stream has emitted, is re-evaluating and has buffered, in
\* that order.
StreamChanges(st) ==
    [k \in 1..Len(st.delivered) |-> st.delivered[k].change] \o st.inflight \o st.pending

\* Every change reported since a live subscription began is emitted, in
\* re-evaluation or buffered, once each and in the order of the changes;
\* an emitted status was evaluated no earlier than its change.
C19_ChangesAccounted ==
    \A i \in 1..Len(streams) :
        /\ Len(streams[i].inflight) <= 1
        /\ ~streams[i].cancelled =>
                StreamChanges(streams[i]) =
                    [k \in 1..(nChanges - streams[i].since) |-> streams[i].since + k]
        /\ \A k \in 1..Len(streams[i].delivered) :
                streams[i].delivered[k].asOf >= streams[i].delivered[k].change

\* No live subscription holds a change it has not emitted.
StreamsDrained ==
    \A i \in 1..Len(streams) :
        streams[i].cancelled \/ (streams[i].pending = <<>> /\ streams[i].inflight = None)

\* C19: for every change reported while the stream is subscribed the
\* stream emits one re-evaluated status, one re-evaluation at a time and in
\* the order of the changes.
C19_StreamEmitsEveryChange == []C19_ChangesAccounted /\ []<>StreamsDrained

\* C19 witness: a live subscription has emitted the status of a first
\* change while a second is in re-evaluation and a third is buffered.
C19_Witness ==
    \E i \in 1..Len(streams) :
        /\ ~streams[i].cancelled
        /\ Len(streams[i].delivered) = 1
        /\ streams[i].inflight # None
        /\ streams[i].pending # <<>>

\* ============================================ sensitive-program detection
\* A Dart String is the sequence of its characters, so that case folding is
\* an operation on it.
UpperCaseLetters ==
    <<"A", "B", "C", "D", "E", "F", "G", "H", "I", "J", "K", "L", "M",
      "N", "O", "P", "Q", "R", "S", "T", "U", "V", "W", "X", "Y", "Z">>
LowerCaseLetters ==
    <<"a", "b", "c", "d", "e", "f", "g", "h", "i", "j", "k", "l", "m",
      "n", "o", "p", "q", "r", "s", "t", "u", "v", "w", "x", "y", "z">>

\* String.toLowerCase(): capital letters are replaced, every other
\* character is kept.
ToLowerCase(str) ==
    [i \in 1..Len(str) |->
        IF \E k \in 1..Len(UpperCaseLetters) : UpperCaseLetters[k] = str[i]
        THEN LowerCaseLetters[CHOOSE k \in 1..Len(UpperCaseLetters) :
                                  UpperCaseLetters[k] = str[i]]
        ELSE str[i]]

sensitiveCategories ==
    {<<"c", "r", "i", "s", "i", "s">>,
     <<"d", "o", "m", "e", "s", "t", "i", "c", "-", "v", "i", "o", "l", "e", "n", "c", "e">>,
     <<"m", "e", "n", "t", "a", "l", "-", "h", "e", "a", "l", "t", "h">>,
     <<"l", "g", "b", "t", "q">>,
     <<"t", "e", "e", "n", "-", "h", "e", "a", "l", "t", "h">>,
     <<"s", "u", "b", "s", "t", "a", "n", "c", "e", "-", "a", "b", "u", "s", "e">>,
     <<"h", "o", "u", "s", "i", "n", "g", "-", "e", "m", "e", "r", "g", "e", "n", "c", "y">>}

sensitiveEligibilities ==
    {<<"l", "g", "b", "t", "q">>,
     <<"y", "o", "u", "t", "h">>,
     <<"i", "m", "m", "i", "g", "r", "a", "n", "t", "s">>,
     <<"u", "n", "h", "o", "u", "s", "e", "d">>,
     <<"r", "e", "e", "n", "t", "r", "y">>}

\* The loop over the tags from position i on: true at the first tag whose
\* lower-cased form is in the list.
RECURSIVE SensitiveTagFrom(_, _)
SensitiveTagFrom(eligibility, i) ==
    IF i > Len(eligibility) THEN FALSE
    ELSE IF ToLowerCase(eligibility[i]) \in sensitiveEligibilities THEN TRUE
    ELSE SensitiveTagFrom(eligibility, i + 1)

\* Only the category is looked at.
IsSensitiveByCategory(category, eligibility) ==
    category # None /\ ToLowerCase(category[1]) \in sensitiveCategories

\* SafetyService.isProgramSensitive; category and eligibility are optional.
IsProgramSensitive(category, eligibility) ==
    IF category # None /\ ToLowerCase(category[1]) \in sensitiveCategories
    THEN TRUE
    ELSE IF eligibility # None THEN SensitiveTagFrom(eligibility[1], 1)
    ELSE FALSE

\* Categories and tags a caller passes: listed and unlisted ones, in several
\* spellings, a category that is listed only as a tag and a tag that is
\* listed only as a category.
CategoryInputs ==
    {None} \cup {Some(c) : c \in {<<"c", "r", "i", "s", "i", "s">>,
                          <<"C", "r", "i", "s", "i", "s">>,
                          <<"L", "G", "B", "T", "Q">>,
                          <<"T", "e", "e", "n", "-", "H", "e", "a", "l", "t", "h">>,
                          <<"y", "o", "u", "t", "h">>,
                          <<"f", "o", "o", "d">>}}
TagInputs ==
    {<<"l", "g", "b", "t", "q">>,
     <<"Y", "o", "u", "t", "h">>,
     <<"R", "E", "E", "N", "T", "R", "Y">>,
     <<"c", "r", "i", "s", "i", "s">>,
     <<"s", "e", "n", "i", "o", "r", "s">>}
MaxTags == 2
EligibilityInputs ==
    {None} \cup {Some(e) : e \in UNION {[1..n -> TagInputs] : n \in 0..MaxTags}}

\* SafetyProvider.isProgramSensitive: a synchronous call, which delegates to
\* the engine and returns its answer.
CallIsProgramSensitive(s, category, eligibility) ==
    /\ frames' = [frames EXCEPT ![s] =
            [IdleFrame EXCEPT !.op = "isProgramSensitive",
                              !.arg = Some([category |-> category,
                                            eligibility |-> eligibility]),
                              !.pc = "done", !.out = "returned",
                              !.ret = Some(IsProgramSensitive(category,
                                                              eligibility))]]
    /\ UNCHANGED <<uiVars, storeFailed, prefs, prefsLoaded, engineVars, provider, netVars,
                   loadRuns, sess>>

\* Programs are checked one after the other.
MaxSensitiveCalls == 2

NextSensitive ==
    \/ NoCallInFlight /\ Counted(MaxSensitiveCalls) /\
            \E category \in CategoryInputs : \E eligibility \in EligibilityInputs :
                CallIsProgramSensitive(1, category, eligibility)

InitSensitive ==
    /\ Init
    /\ platform = "android"
    /\ prefs = FreshPrefs

SpecSensitive == InitSensitive /\ [][NextSensitive]_vars

\* C21: for every category (possibly absent) and every list of eligibility
\* tags (possibly absent), isProgramSensitive returns true exactly when the
\* lower-cased category is in the sensitive-category set or at least one
\* lower-cased tag is in the sensitive-eligibility set.
C21_SensitiveIffListed ==
    \A s \in Slots :
        (Returned(s) /\ frames[s].op = "isProgramSensitive") =>
            LET category == frames[s].arg[1].category
                eligibility == frames[s].arg[1].eligibility
            IN  frames[s].ret[1] =
                    (\/ /\ Len(category) = 1
                        /\ \E c \in sensitiveCategories :
                                ToLowerCase(category[1]) = c
                     \/ /\ Len(eligibility) = 1
                        /\ \E i \in 1..Len(eligibility[1]) :
                                \E e \in sensitiveEligibilities :
                                    ToLowerCase(eligibility[1][i]) = e)

\* A program with an unlisted category was found sensitive through its
\* second tag, spelled with capitals.
C21_Witness ==
    /\ Returned(1)
    /\ frames[1].op = "isProgramSensitive"
    /\ frames[1].ret = Some(TRUE)
    /\ frames[1].arg[1].category = Some(<<"f", "o", "o", "d">>)
    /\ frames[1].arg[1].eligibility = Some(<<<<"s", "e", "n", "i", "o", "r", "s">>, <<"R", "E", "E", "N", "T", "R", "Y">>>>)

\* ================================================= PWA install button
\* The page script that shows the install button is not among the sources;
\* its Playwright test is.  The handlers below do what that test expects of
\* them.
MaxPrompts == 3
MaxClicks == 3
MaxInstalled == 2

\* The page's state once the prompt flow has ended with `outcome`: the
\* prompt is dropped and the button hidden, whatever the user chose.
KeepsPromptWhenDismissed(outcome) ==
    IF outcome = "accepted"
    THEN [pwa EXCEPT !.deferredPrompt = None, !.shown = FALSE, !.prompting = FALSE,
                     !.outcome = Some(outcome), !.last = "choice"]
    ELSE [pwa EXCEPT !.prompting = FALSE, !.outcome = Some(outcome),
                     !.last = "choice"]

AfterUserChoice(outcome) ==
    [pwa EXCEPT !.deferredPrompt = None, !.shown = FALSE, !.prompting = FALSE,
                !.outcome = Some(outcome), !.last = "choice"]

\* The browser fires beforeinstallprompt: the page keeps the event in
\* window.deferredPrompt and shows #install-app-item.
BeforeInstallPrompt ==
    /\ pwa.fired < MaxPrompts
    /\ pwa' = [pwa EXCEPT !.deferredPrompt = Some(pwa.fired + 1), !.shown = TRUE,
                          !.fired = @ + 1, !.last = "beforeinstallprompt"]
    /\ UNCHANGED <<appVars, detector, i18n, wizard>>

\* A click on #install-app-btn, which can be clicked while it is shown:
\* prompt() is called and the handler awaits userChoice.
ClickInstall ==
    /\ pwa.shown
    /\ ~pwa.prompting
    /\ pwa.clicks < MaxClicks
    /\ pwa' = [pwa EXCEPT !.prompting = TRUE, !.clicks = @ + 1, !.last = "click"]
    /\ UNCHANGED <<appVars, detector, i18n, wizard>>

\* userChoice resolves and the click handler finishes.
UserChoice ==
    /\ pwa.prompting
    /\ \E outcome \in {"accepted", "dismissed"} : pwa' = AfterUserChoice(outcome)
    /\ UNCHANGED <<appVars, detector, i18n, wizard>>

\* The browser fires appinstalled.
AppInstalled ==
    /\ pwa.installed < MaxInstalled
    /\ pwa' = [pwa EXCEPT !.deferredPrompt = None, !.shown = FALSE,
                          !.installed = @ + 1, !.last = "appinstalled"]
    /\ UNCHANGED <<appVars, detector, i18n, wizard>>

NextPwa ==
    \/ BeforeInstallPrompt
    \/ ClickInstall
    \/ UserChoice
    \/ AppInstalled

SpecPwa == InitSensitive /\ [][NextPwa]_vars

Locales == {<<"en">>, <<"es">>, <<"zh", "Hans">>, <<"vi">>, <<"tl">>, <<"ko">>}
DEFAULT_LOCALE == <<"en">>

\* `translations` is an object literal: the `in` operator also finds the
\* property names it inherits from Object.prototype (among them these), and
\* reading one of them gives a function or an object, which is truthy.
ObjectPrototypeKeys ==
    {<<"constructor">>, <<"toString">>, <<"valueOf">>, <<"hasOwnProperty">>,
     <<"__proto__">>}

\* isValidLocale: `locale in translations`.
isValidLocale(locale) == locale \in Locales \cup ObjectPrototypeKeys

\* getLocale() on the module state st: the stored locale when storage can be
\* read and holds a non-empty valid value, else the first subtag of
\* navigator.language when that is valid, else the default.
getLocale(st) ==
    IF /\ st.storage
       /\ st.stored # None
       /\ st.stored[1] # <<"">>
       /\ isValidLocale(st.stored[1])
    THEN st.stored[1]
    ELSE IF /\ st.language # None
            /\ st.language[1][1] # ""
            /\ isValidLocale(<<st.language[1][1]>>)
    THEN <<st.language[1][1]>>
    ELSE DEFAULT_LOCALE

\* The end of setLocale for call k: setItem (which throws when storage is not
\* available, and the catch swallows it), the lang attribute, the event.
\* The call record keeps what getLocale() gives right then.
SetLocaleEnds(st, k, locale) ==
    LET after == [st EXCEPT !.stored = IF st.storage THEN Some(locale) ELSE @,
                            !.lang = <<locale[1]>>]
    IN  [after EXCEPT !.calls[k].pc = "done",
                      !.calls[k].got = Some(getLocale(after))]

MaxLocaleCalls == 2
LocaleInputs ==
    Locales \cup {<<"fr">>, <<"EN">>, <<"">>, <<"constructor">>}

\* setLocale(arg) up to its first await: an invalid locale is replaced by
\* the default; a locale whose translations are missing is fetched first.
CallSetLocale(arg) ==
    /\ Len(i18n.calls) < MaxLocaleCalls
    /\ LET locale == IF isValidLocale(arg) THEN arg ELSE DEFAULT_LOCALE
           k == Len(i18n.calls) + 1
           entered == [i18n EXCEPT !.calls = Append(@,
                            [arg |-> arg, locale |-> locale, pc |-> "load",
                             got |-> None])]
       IN  i18n' = IF locale \in i18n.loaded \cup ObjectPrototypeKeys
                   THEN SetLocaleEnds(entered, k, locale)
                   ELSE entered
    /\ UNCHANGED <<appVars, detector, wizard, pwa>>

\* loadLanguage of call k ends: the file was fetched and parsed, or the
\* fetch failed or was not ok; setLocale goes on either way.
LoadLanguageEnds(k, ok) ==
    /\ i18n.calls[k].pc = "load"
    /\ LET locale == i18n.calls[k].locale
           fetched == [i18n EXCEPT !.loaded = IF ok THEN @ \cup {locale} ELSE @]
       IN  i18n' = SetLocaleEnds(fetched, k, locale)
    /\ UNCHANGED <<appVars, detector, wizard, pwa>>

NextI18n ==
    \/ \E arg \in LocaleInputs : CallSetLocale(arg)
    \/ \E k \in 1..Len(i18n.calls) : \E ok \in BOOLEAN : LoadLanguageEnds(k, ok)

\* The page as it loads: any browser language, storage available or not,
\* possibly a locale stored by an earlier visit.
LanguageInputs ==
    {None, Some(<<"en", "US">>), Some(<<"es", "MX">>), Some(<<"fr", "FR">>),
     Some(<<"zh", "Hans", "CN">>), Some(<<"ko">>)}

InitI18n ==
    /\ InitAppUnused
    /\ wizard = NewWizard
    /\ pwa = NewPwa
    /\ \E language \in LanguageInputs, storage \in BOOLEAN,
          stored \in {None, Some(<<"vi">>)} :
            i18n = [NewI18n EXCEPT !.language = language,
                                   !.lang = getLocale([NewI18n EXCEPT
                                                !.language = language,
                                                !.storage = storage,
                                                !.stored = stored]),
                                   !.storage = storage, !.stored = stored]

SpecI18n == InitI18n /\ [][NextI18n]_vars

\* C23: for every supported locale l, once setLocale(l) has completed with
\* storage available, getLocale() returns l, whatever the browser language
\* is and whether or not the language file could be loaded; and setLocale
\* with an unsupported locale stores the default 'en' instead.
C23_SetLocaleThenGetLocale ==
    \A k \in 1..Len(i18n.calls) :
        (i18n.calls[k].pc = "done" /\ i18n.storage) =>
            /\ i18n.calls[k].arg \in Locales =>
                    i18n.calls[k].got = Some(i18n.calls[k].arg)
            /\ i18n.calls[k].arg \notin Locales =>
                    i18n.calls[k].locale = <<"en">>

\* C24: whenever isIncognitoSession is false and no operation is in flight,
\* both in-memory session lists are empty, after any sequence of
\* startIncognitoSession, endIncognitoSession, setIncognitoModeEnabled,
\* history adds, clearAllHistory and executeQuickExit; in particular after a
\* session was ended through setIncognitoModeEnabled(false).
C24_NoSessionNoSessionLists ==
    (NoCallInFlight /\ ~isIncognitoSession) => SessionListsEmpty

\* C25: while isIncognitoSession is true the persisted history lists never
\* gain an entry, also when an addRecentProgram / addSearchQuery call that
\* began before the session started resumes after startIncognitoSession()
\* or after the purge of setIncognitoModeEnabled(true).
C25_NothingPersistedInSession ==
    [][isIncognitoSession =>
            /\ Range(prefs'.recent_programs) \subseteq Range(prefs.recent_programs)
            /\ Range(prefs'.search_history) \subseteq Range(prefs.search_history)]_vars

\* C26: whenever no facade operation is in flight and no access to the
\* store has failed, the facade's cached isIncognitoSession equals the
\* engine's and, once the facade has been initialized, its cached
\* incognitoModeEnabled equals the persisted incognito flag, for any
\* sequence of facade calls, including calls issued while an earlier call
\* is still awaiting.
C26_IncognitoCacheMatchesEngine ==
    (NoCallInFlight /\ ~storeFailed) =>
        /\ provider.isIncognitoSession = isIncognitoSession
        /\ provider.initialized => provider.incognitoModeEnabled = IncognitoSetting

\* The facade is initialized with a live subscription and nothing has
\* failed: no access to the store, and no connectivity query (a failed
\* query leaves the status unknown).
NetworkCacheLive ==
    /\ loadRuns > 0
    /\ ~provider.disposed
    /\ ~storeFailed
    /\ provider.networkSubscription # None
    /\ provider.networkStatus # Some(Unknown)

\* C27: once initialize() has started and before teardown, if connectivity
\* stops changing then the facade's cached network status eventually equals
\* the classification of the final connectivity reading, also when a change
\* occurs between the initial status fetch and the stream subscription or
\* while a refreshNetworkStatus() call is in flight.
C27_CacheReachesFinalReading ==
    <>[](NetworkCacheLive =>
            provider.networkStatus = Some(NetworkPrivacyStatus(connectivity, TRUE)))

\* C28: after any sequence of applyDisguisedIcon and resetToDefaultIcon
\* calls, each run to completion and each possibly failing at any of its
\* preference writes, the persisted disguised_mode flag is true only if a
\* disguised_icon id is stored.
C28_DisguiseFlagImpliesIcon ==
    NoCallInFlight =>
        (prefs.disguised_mode = Some(TRUE) => prefs.disguised_icon # None)

\* C28 witness: after a successful applyDisguisedIcon, a resetToDefaultIcon
\* has cleared the flag and failed at removing the id.
C28_Witness ==
    /\ Returned(1)
    /\ frames[1].op = "resetToDefaultIcon"
    /\ ~frames[1].ret.success
    /\ prefs.disguised_mode = Some(FALSE)
    /\ prefs.disguised_icon # None

\* ------------------------------------------------- the quick exit detector
\* Durations in ms; accelerations in tenths of m/s^2 (15.0 is 150).
tapResetDuration == 400
shakeThreshold == 150
shakeCountThreshold == 3
shakeResetDuration == 500

Min(a, b) == IF a < b THEN a ELSE b

\* As handleTap, triggering on the second tap.
HandleTapAtTwo(st) ==
    IF st.tapCount + 1 >= 2
    THEN [tapCount |-> 0, tapResetTimer |-> None, trigger |-> TRUE]
    ELSE [tapCount |-> st.tapCount + 1, tapResetTimer |-> Some(tapResetDuration),
          trigger |-> FALSE]

\* _handleTap: the tap is counted and the pending timer cancelled; the third
\* tap calls _triggerQuickExit and clears the count, an earlier one starts
\* the reset timer afresh.
handleTap(st) ==
    IF st.tapCount + 1 >= 3
    THEN [tapCount |-> 0, tapResetTimer |-> None, trigger |-> TRUE]
    ELSE [tapCount |-> st.tapCount + 1, tapResetTimer |-> Some(tapResetDuration),
          trigger |-> FALSE]

\* _handleAccelerometerEvent for an event whose |x| + |y| + |z| is `sum`:
\* 9.8 is taken off; above the threshold the shake is counted, from 1 when
\* the last one is more than the reset duration back, and the third in a
\* row calls _triggerQuickExit and clears the count.
handleAccelerometerEvent(st, sum) ==
    LET acceleration == sum - 98
        count == IF \/ st.lastShakeTime = None
                    \/ st.lastShakeTime[1] > shakeResetDuration
                 THEN 1 ELSE st.shakeCount + 1
    IN  IF acceleration > shakeThreshold
        THEN [shakeCount |-> IF count >= shakeCountThreshold THEN 0 ELSE count,
              lastShakeTime |-> Some(0),
              trigger |-> count >= shakeCountThreshold]
        ELSE [shakeCount |-> st.shakeCount, lastShakeTime |-> st.lastShakeTime,
              trigger |-> FALSE]

\* _triggerQuickExit: nothing while the facade has quick exit disabled;
\* otherwise executeQuickExit() is called, and runs beside any call still
\* in flight.
TriggerQuickExit(trigger) ==
    IF trigger /\ provider.quickExitEnabled
    THEN \E s \in Slots : FreeSlot(s) /\ ExecuteQuickExitBegins(s) /\ nCalls' = nCalls
    ELSE UNCHANGED <<appVars, webVars>>

\* A tap on the child, which reaches _handleTap while the last build has
\* wrapped the child in a GestureDetector.
Tap ==
    /\ detector.gesture
    /\ LET h == handleTap(detector)
       IN  /\ detector' = [detector EXCEPT
                             !.tapCount = h.tapCount,
                             !.tapResetTimer = h.tapResetTimer,
                             !.run = IF @ = 3 THEN 1 ELSE @ + 1,
                             !.sinceTap = Some(0),
                             !.last = "tap"]
           /\ TriggerQuickExit(h.trigger)

\* The reset timer fires: its callback clears the tap count.
TapResetTimerFires ==
    /\ detector.tapResetTimer = Some(0)
    /\ detector' = [detector EXCEPT !.tapCount = 0, !.tapResetTimer = None,
                                    !.run = 0, !.last = "expiry"]
    /\ UNCHANGED <<appVars, webVars>>

\* Time passes, no further than the moment the pending timer is due.
Gaps == {100, 300}
Elapse(ms) ==
    /\ detector.tapResetTimer # None => ms <= detector.tapResetTimer[1]
    /\ detector' =
         [detector EXCEPT
            !.tapResetTimer = IF @ = None THEN None ELSE Some(@[1] - ms),
            !.lastShakeTime =
                IF @ = None THEN None
                ELSE Some(Min(@[1] + ms, shakeResetDuration + 100)),
            !.sinceTap =
                IF @ = None THEN None ELSE Some(Min(@[1] + ms, tapResetDuration)),
            !.last = "elapse"]
    /\ UNCHANGED <<appVars, webVars>>

\* An accelerometer event: at the threshold after 9.8 is taken off, or
\* just above.
AccelerationInputs == {248, 249}
AccelerometerEvent(sum) ==
    LET h == handleAccelerometerEvent(detector, sum)
    IN  /\ detector' = [detector EXCEPT !.shakeCount = h.shakeCount,
                                        !.lastShakeTime = h.lastShakeTime,
                                        !.last = "shake"]
        /\ TriggerQuickExit(h.trigger)

\* build: the Consumer rebuilds after the facade has notified, and wraps
\* the child in a GestureDetector only while quick exit is enabled.
Build ==
    /\ detector.gesture # provider.quickExitEnabled
    /\ detector' = [detector EXCEPT !.gesture = provider.quickExitEnabled,
                                    !.last = "build"]
    /\ UNCHANGED <<appVars, webVars>>

\* The steps of the calls the detector's screen makes.
DetectorResume(s) ==
    \/ SetterPrefs(s)
    \/ SetterWrite(s)
    \/ QuickExitUrl(s)
    \/ QuickExitMode(s)
    \/ QuickExitCanLaunch(s)
    \/ QuickExitLaunch(s)

\* The detector over a facade whose quick exit setting the user switches:
\* taps, shakes, the reset timer and passing time.
MaxDetectorCalls == 2
NextDetector ==
    \/ Tap
    \/ TapResetTimerFires
    \/ \E ms \in Gaps : Elapse(ms)
    \/ \E sum \in AccelerationInputs : AccelerometerEvent(sum)
    \/ Build
    \/ \E s \in Slots : FreeSlot(s) /\ Counted(MaxDetectorCalls) /\
            \E v \in BOOLEAN : CallSetter(s, "setQuickExitEnabled", v)
    \/ \E s \in Slots : DetectorResume(s)

SpecDetector == InitSensitive /\ [][NextDetector]_vars

\* A call of executeQuickExit() begins in this step.
QuickExitTriggered ==
    \E s \in Slots :
        /\ frames[s].pc \in {"idle", "done"}
        /\ frames'[s].op = "executeQuickExit"
        /\ frames'[s].pc = "qe_url"

\* C29: while quickExitEnabled is true a tap triggers executeQuickExit if
\* and only if it is the third tap of a run in which every tap follows the
\* previous one before the 400 ms reset timer fires (and that timer fires
\* no sooner than 400 ms after the tap before it); the tap count is 0
\* again right after a trigger or a timer expiry; while quickExitEnabled
\* is false no tap or shake sequence triggers executeQuickExit.
C29_TripleTapTriggers ==
    [][/\ (detector' # detector /\ detector'.last = "tap") =>
            /\ provider.quickExitEnabled =>
                    (QuickExitTriggered <=> detector'.run = 3)
            /\ QuickExitTriggered => detector'.tapCount = 0
       /\ (detector' # detector /\ detector'.last = "expiry") =>
            /\ detector'.tapCount = 0
            /\ detector.sinceTap = Some(tapResetDuration)
       /\ ~provider.quickExitEnabled => ~QuickExitTriggered]_vars

\* C29 witness: the third tap of a run has just called executeQuickExit().
C29_Witness ==
    /\ detector.last = "tap"
    /\ detector.run = 3
    /\ detector.sinceTap = Some(0)
    /\ detector.tapCount = 0
    /\ provider.quickExitEnabled
    /\ \E s \in Slots : frames[s].op = "executeQuickExit" /\ frames[s].pc = "qe_url"

\* ------------------------------------------------- the eligibility wizard
\* The questions rendered as a <select>; the others are checkbox grids.
SelectIds == {"household-size", "household-income", "county"}

\* The values a control can take, from the head of each option list: an
\* option value for a select, the set of checked values for a grid.
Options(q) ==
    CASE q = "household-size" -> {"1", "2"}
      [] q = "household-income" -> {"under-20k", "20k-40k"}
      [] q = "county" -> {"", "alameda"}
      [] q = "categories" -> SUBSET {"seniors"}
      [] q = "current-programs" -> SUBSET {"medi-cal"}
      [] q = "categories-interest" -> SUBSET {"food"}

\* A control as renderQuestion() draws it: the first option selected,
\* nothing checked.
Rendered(q) ==
    CASE q = "household-size" -> "1"
      [] q = "household-income" -> "under-20k"
      [] q = "county" -> ""
      [] OTHER -> {}

Questions(step) == Range(WIZARD_STEPS[step + 1])

\* saveCurrentAnswers: for each question of the current step, the value of
\* its select if the body holds it, the checked boxes of its grid (none
\* when the body holds no such grid).
saveCurrentAnswers(w) ==
    [w EXCEPT !.answers =
        [q \in QuestionIds |->
            IF q \notin Questions(w.currentStep) THEN w.answers[q]
            ELSE IF w.form[q] # None THEN w.form[q]
            ELSE IF q \in SelectIds THEN w.answers[q]
            ELSE Some({})]]

\* `if (answers[q.id])`: a saved answer that is not the empty string.
Truthy(q, answer) == answer # None /\ (q \in SelectIds => answer # Some(""))

\* renderStep: the Back button shows from step 1 on, the body holds the
\* controls of the current step, and the saved answers are put back.
renderStep(w) ==
    [w EXCEPT !.body = "step",
              !.backVisible = w.currentStep > 0,
              !.form = [q \in QuestionIds |->
                            IF q \notin Questions(w.currentStep) THEN None
                            ELSE IF Truthy(q, w.answers[q]) THEN w.answers[q]
                            ELSE Some(Rendered(q))]]

\* showResults: the answers are saved once more, the progress bar is
\* hidden, both footer buttons get an onclick handler and the body shows
\* the results.
showResults(w) ==
    [saveCurrentAnswers(w) EXCEPT
        !.progressHidden = TRUE, !.backVisible = TRUE, !.onclick = TRUE,
        !.body = "results", !.form = [q \in QuestionIds |-> None]]

\* nextStep, the click listener of #wizard-next.
nextStep(w) ==
    LET saved == saveCurrentAnswers(w)
    IN  IF saved.currentStep < Len(WIZARD_STEPS) - 1
        THEN renderStep([saved EXCEPT !.currentStep = @ + 1])
        ELSE showResults(saved)

\* prevStep, the click listener of #wizard-back.
prevStep(w) ==
    IF w.currentStep > 0 THEN renderStep([w EXCEPT !.currentStep = @ - 1]) ELSE w

closeWizard(w) == [w EXCEPT !.hidden = TRUE]

\* The onclick handler showResults() sets on #wizard-next.
ViewAllPrograms(w) == [closeWizard(w) EXCEPT !.href = "directory"]

\* The onclick handler showResults() sets on #wizard-back.
StartOver(w) ==
    renderStep([w EXCEPT !.progressHidden = FALSE, !.currentStep = 0,
                         !.answers = [q \in QuestionIds |-> None]])

\* A click on the launch button: openWizard.
OpenWizard ==
    /\ wizard.hidden
    /\ wizard.href = "eligibility"
    /\ wizard' = [renderStep([wizard EXCEPT
                                !.currentStep = 0,
                                !.answers = [q \in QuestionIds |-> None]])
                    EXCEPT !.hidden = FALSE, !.last = "open"]
    /\ UNCHANGED <<appVars, detector, i18n, pwa>>

\* A click on the backdrop or the close button, or the Escape key.
CloseWizard ==
    /\ ~wizard.hidden
    /\ wizard' = [closeWizard(wizard) EXCEPT !.last = "close"]
    /\ UNCHANGED <<appVars, detector, i18n, pwa>>

\* The user changes a control of the step that is shown.
ChangeInput(q, v) ==
    /\ ~wizard.hidden
    /\ wizard.form[q] # None
    /\ wizard' = [wizard EXCEPT !.form[q] = Some(v), !.last = "input"]
    /\ UNCHANGED <<appVars, detector, i18n, pwa>>

\* A click on #wizard-next: the listener createWizardModal() added runs,
\* then the onclick handler if one was set before the click.
ClickNext ==
    /\ ~wizard.hidden
    /\ LET listened == nextStep(wizard)
       IN  wizard' = [IF wizard.onclick THEN ViewAllPrograms(listened) ELSE listened
                        EXCEPT !.last = "next"]
    /\ UNCHANGED <<appVars, detector, i18n, pwa>>

\* A click on #wizard-back while it shows: the listener, then the onclick
\* handler if one was set before the click.  On the results screen the
\* button reads Start Over.
ClickBack ==
    /\ ~wizard.hidden
    /\ wizard.backVisible
    /\ LET listened == prevStep(wizard)
       IN  wizard' = [IF wizard.onclick THEN StartOver(listened) ELSE listened
                        EXCEPT !.last = IF wizard.body = "results"
                                        THEN "startOver" ELSE "back"]
    /\ UNCHANGED <<appVars, detector, i18n, pwa>>

\* The browser has followed `window.location.href = '/#directory'`; the
\* user returns to the eligibility page, which loads the script anew.
LoadPage ==
    /\ wizard.href = "directory"
    /\ wizard' = NewWizard
    /\ UNCHANGED <<appVars, detector, i18n, pwa>>

NextWizard ==
    \/ OpenWizard
    \/ CloseWizard
    \/ \E q \in QuestionIds : \E v \in Options(q) : ChangeInput(q, v)
    \/ ClickNext
    \/ ClickBack
    \/ LoadPage

SpecWizard == InitSensitive /\ [][NextWizard]_vars

\* The wizard is open on the questions of its current step.
OnStep(w) == ~w.hidden /\ w.body = "step" /\ w.href = "eligibility"

\* The answers once the controls of the step shown are saved.
Saved(w) ==
    [q \in QuestionIds |->
        IF q \in Questions(w.currentStep) THEN w.form[q] ELSE w.answers[q]]

\* C30: in every state reachable by Open, Next, Back, Close and Start
\* Over, currentStep stays within 0..4; Next on steps 0-3 saves that
\* step's answers and advances exactly one step, the wizard then being
\* open on the following step; Back on steps 1-4 goes back exactly one
\* step without discarding saved answers; also after the results screen
\* has been shown and the wizard was restarted with Start Over or reopened.
C30_WizardStepsOneAtATime ==
    [][/\ wizard'.currentStep \in 0..4
       /\ (wizard' # wizard /\ wizard'.last = "next"
                /\ OnStep(wizard) /\ wizard.currentStep \in 0..3) =>
            /\ wizard'.currentStep = wizard.currentStep + 1
            /\ wizard'.answers = Saved(wizard)
            /\ OnStep(wizard')
       /\ (wizard' # wizard /\ wizard'.last = "back"
                /\ OnStep(wizard) /\ wizard.currentStep \in 1..4) =>
            /\ wizard'.currentStep = wizard.currentStep - 1
            /\ wizard'.answers = wizard.answers
            /\ OnStep(wizard')]_vars

====
